---------------------------- MODULE Spec2Model ----------------------------
(***************************************************************************)
(* The pacman-agents repository: the FOL term/predicate model and unify    *)
(* (fol_components.py), the breadth-first pathfinder (path_utils.py), the  *)
(* vacuum agent and its world, the knowledge bases of Ghosts A, B and C,   *)
(* and the game loop (environment.py, pacman.py).                          *)
(*                                                                         *)
(* The specifications share the module's variables; each one drives its    *)
(* own group of variables and leaves the other groups idle.                *)
(***************************************************************************)
EXTENDS Integers, Sequences, FiniteSets, TLC

VARIABLES
    \* ---- unify(query, fact) ----
    uQuery, uFact, uResult, uDone,
    \* ---- bfs_pathfinder(start_pos, goal_pos, safe_tiles) ----
    bStart, bGoal, bTiles, bResult, bDone,
    \* ---- KnowledgeBaseWithFOL (vacuum) ----
    vfacts, vw, vh, vCall, vAction, vLastPos, vPosTells, vCalls,
    \* ---- Environment and run_simulation (vacuum_utils.py) ----
    env_w, env_h, env_obstacles, env_init_dirt, env_dock, env_max_battery, env_pos,
    env_dirt, env_battery, env_time, env_cleaned, env_action_blocked,
    runState, runSteps, bumps, vacuums,
    \* ---- KnowledgeBaseC (Ghost C) ----
    facts, my_pos, goal, current_path, last_pacman_pos, last_pacman_vector,
    current_time, cArgs, cMove, cPlan, cCall, cCalls,
    \* ---- KnowledgeBaseA (Ghost A) ----
    a_walls, a_safe_tiles, a_current_state, a_last_known_pacman, a_last_move,
    a_investigation_target, a_my_pos, a_see_pacman, a_pacman_pos_percept,
    aCall, aTells, aStates,
    \* ---- Environment (environment.py) and run_game (pacman.py) ----
    pm_pellets, pm_pacman_pos, pm_ghost_pos, pm_iterations, pm_victory, pm_game_over,
    pm_score, pm_lives, pacman_action, current_lives, gamePc, tickLog, tickStart,
    lastPercepts,
    \* ---- KnowledgeBaseB (Ghost B) and the world it plays in ----
    kbB, envB, pcB, moveB, planB, argsB, ticksB, prevB

uVars == <<uQuery, uFact, uResult, uDone>>
bVars == <<bStart, bGoal, bTiles, bResult, bDone>>
vVars == <<vfacts, vw, vh, vCall, vAction, vLastPos, vPosTells, vCalls>>
eVars == <<env_w, env_h, env_obstacles, env_init_dirt, env_dock, env_max_battery,
           env_pos, env_dirt, env_battery, env_time, env_cleaned, env_action_blocked,
           runState, runSteps, bumps, vacuums>>
cVars == <<facts, my_pos, goal, current_path, last_pacman_pos, last_pacman_vector,
           current_time, cArgs, cMove, cPlan, cCall, cCalls>>
aVars == <<a_walls, a_safe_tiles, a_current_state, a_last_known_pacman, a_last_move,
           a_investigation_target, a_my_pos, a_see_pacman, a_pacman_pos_percept,
           aCall, aTells, aStates>>
gVars == <<pm_pellets, pm_pacman_pos, pm_ghost_pos, pm_iterations, pm_victory,
           pm_game_over, pm_score, pm_lives, pacman_action, current_lives, gamePc,
           tickLog, tickStart, lastPercepts>>
kVars == <<kbB, envB, pcB, moveB, planB, argsB, ticksB, prevB>>
vars  == <<uVars, bVars, vVars, eVars, cVars, aVars, gVars, kVars>>

\* The variables that belong to the other components.
exceptU == <<bVars, vVars, eVars, cVars, aVars, gVars, kVars>>
exceptB == <<uVars, vVars, eVars, cVars, aVars, gVars, kVars>>
exceptVE == <<uVars, bVars, cVars, aVars, gVars, kVars>>
exceptV == <<exceptVE, eVars>>
exceptC == <<uVars, bVars, vVars, eVars, aVars, gVars, kVars>>
exceptA == <<uVars, bVars, vVars, eVars, cVars, gVars, kVars>>
exceptG == <<uVars, bVars, vVars, eVars, cVars, aVars, kVars>>
exceptK == <<uVars, bVars, vVars, eVars, cVars, aVars, gVars>>

---------------------------------------------------------------------------
(* Terms and predicates (fol_components.py)                                *)

\* Constant(value) with an integer value.
Const(n) == [k |-> "int", i |-> n, s |-> ""]
\* Constant(value) with a string value (ghost identifiers such as 'C').
ConstS(str) == [k |-> "str", i |-> 0, s |-> str]
\* Variable(name).
Var(name) == [k |-> "var", i |-> 0, s |-> name]
\* A bare Python value that is no Term at all (LastPos passes the string
\* "LastPos" as its first argument).
Raw(str) == [k |-> "raw", i |-> 0, s |-> str]

\* isinstance(arg, Constant)
IsConstant(t) == t.k \in {"int", "str"}
\* isinstance(arg, Variable)
IsVariable(t) == t.k = "var"

\* A predicate object: its concrete class and its args tuple.
Pred(type, args) == [type |-> type, args |-> args]

\* Predicate.is_ground
is_ground(p) == \A i \in 1..Len(p.args) : IsConstant(p.args[i])

\* Variable names used anywhere in the program's queries.
VarNames == {"X", "Y", "ID", "DX", "DY", "Count", "T"}

\* A dict entry that is absent.
Unbound == [k |-> "none", i |-> 0, s |-> ""]
\* substitution = {}
EmptySub == [n \in VarNames |-> Unbound]
\* The keys of a substitution dict.
SubDomain(sub) == {n \in VarNames : sub[n] # Unbound}

\* unify's two outcomes: None, or a substitution dict.
UnifyNone == [ok |-> FALSE, sub |-> EmptySub]
UnifySome(sub) == [ok |-> TRUE, sub |-> sub]

\* A Constant of the query "must match constant in fact".
ConstMismatchNever(q, f) == FALSE
ConstMismatch(q, f) == (~IsConstant(f)) \/ q # f

\* "Check consistency with existing bindings".
BindingConflictNever(sub, q, f) == FALSE
BindingConflict(sub, q, f) == sub[q.s] # f

\* substitution[q_arg] = f_arg
BindDropped(sub, q, f) == sub
Bind(sub, q, f) == [sub EXCEPT ![q.s] = f]

\* The for loop of unify over zip(query.args, fact.args), from position i.
RECURSIVE UnifyArgs(_, _, _, _)
UnifyArgs(qargs, fargs, i, sub) ==
    IF i > Len(qargs) THEN UnifySome(sub)
    ELSE LET q == qargs[i]
             f == fargs[i]
         IN  IF IsConstant(q)
             THEN IF ConstMismatch(q, f) THEN UnifyNone
                  ELSE UnifyArgs(qargs, fargs, i + 1, sub)
             ELSE IF IsVariable(q)
             THEN IF ~IsConstant(f) THEN UnifyNone
                  ELSE IF sub[q.s] # Unbound
                       THEN IF BindingConflict(sub, q, f) THEN UnifyNone
                            ELSE UnifyArgs(qargs, fargs, i + 1, sub)
                       ELSE UnifyArgs(qargs, fargs, i + 1, Bind(sub, q, f))
             ELSE UnifyArgs(qargs, fargs, i + 1, sub)

unify(query, fact) ==
    IF query.type # fact.type THEN UnifyNone
    ELSE IF Len(query.args) # Len(fact.args) THEN UnifyNone
    ELSE UnifyArgs(query.args, fact.args, 1, EmptySub)

---------------------------------------------------------------------------
(* SpecUnify: unify applied to every bounded query/fact pair               *)

\* Largest integer constant and largest arity of the enumerated predicates.
UMaxVal == 1
UMaxArity == 2

UTerms == {Const(n) : n \in 0..UMaxVal} \cup {Var("X"), Var("Y")} \cup {Raw("LastPos")}

RECURSIVE SeqsOfLen(_, _)
SeqsOfLen(S, n) ==
    IF n = 0 THEN {<<>>}
    ELSE {Append(sq, e) : sq \in SeqsOfLen(S, n - 1), e \in S}

SeqsUpTo(S, n) == UNION {SeqsOfLen(S, m) : m \in 0..n}

\* Predicate(*args) takes any number of args; LearnedSafe(x, y) takes two.
UPreds == {Pred("Predicate", a) : a \in SeqsUpTo(UTerms, UMaxArity)}
          \cup {Pred("LearnedSafe", a) : a \in SeqsOfLen(UTerms, 2)}

NoPred == Pred("", <<>>)

UnifyIdle == uQuery = NoPred /\ uFact = NoPred /\ uResult = UnifyNone /\ uDone = FALSE
BfsIdle == bStart = <<0, 0>> /\ bGoal = <<0, 0>> /\ bTiles = {} /\ bResult = <<>> /\ bDone = FALSE
\* The record of the last call made on a knowledge base: the method, its
\* predicate argument if it takes one, and whether it raised. The method is
\* "off" while the knowledge base is not constructed and "new" right after
\* its constructor.
Call(op, pred, raised) == [op |-> op, pred |-> pred, raised |-> raised]

\* No Environment is constructed and run_simulation is not called.
EnvIdle ==
    /\ env_w = 0 /\ env_h = 0 /\ env_obstacles = {} /\ env_init_dirt = {}
    /\ env_dock = <<0, 0>>
    /\ env_max_battery = 0 /\ env_pos = <<0, 0>> /\ env_dirt = {}
    /\ env_battery = 0 /\ env_time = 0 /\ env_cleaned = 0
    /\ env_action_blocked = FALSE
    /\ runState = "none" /\ runSteps = 0 /\ bumps = 0 /\ vacuums = 0
VacuumIdle ==
    /\ vfacts = {} /\ vw = 0 /\ vh = 0 /\ vCall = Call("off", NoPred, FALSE)
    /\ vAction = "" /\ vLastPos = NoPred /\ vPosTells = 0 /\ vCalls = 0
    /\ EnvIdle
\* The arguments of the last tell made on Ghost C's knowledge base.
TellArgs(pacman_pos, other_ghost_pos, percepts) ==
    [pacman_pos |-> pacman_pos, other_ghost_pos |-> other_ghost_pos, percepts |-> percepts]
\* What the last ask decided: the goal its rules chose (new_goal, <<>> for
\* None), whether it ran the pathfinder for it, whether that found no path,
\* and whether it found the present position missing from the path to follow.
PlanInfo(new_goal, replanned, no_path) ==
    [new_goal |-> new_goal, replanned |-> replanned, no_path |-> no_path,
     path_invalid |-> FALSE]
GhostCIdle ==
    /\ facts = {} /\ my_pos = <<24, 8>> /\ goal = <<>> /\ current_path = <<>>
    /\ last_pacman_pos = <<>>
    /\ last_pacman_vector = <<0, 0>> /\ current_time = 0
    /\ cArgs = TellArgs(<<>>, <<>>, <<>>) /\ cMove = ""
    /\ cPlan = PlanInfo(<<>>, FALSE, FALSE)
    /\ cCall = Call("off", NoPred, FALSE) /\ cCalls = 0
GhostAIdle ==
    /\ a_walls = {} /\ a_safe_tiles = {} /\ a_current_state = "PATROLLING"
    /\ a_last_known_pacman = <<>> /\ a_last_move = "WAIT"
    /\ a_investigation_target = <<>> /\ a_my_pos = <<0, 0>>
    /\ a_see_pacman = FALSE /\ a_pacman_pos_percept = <<>>
    /\ aCall = "off" /\ aTells = 0 /\ aStates = <<>>

\* The game before run_game is entered.
GameIdle ==
    /\ pm_pellets = {} /\ pm_pacman_pos = <<0, 0>> /\ pm_ghost_pos = <<>>
    /\ pm_iterations = 0 /\ pm_victory = FALSE /\ pm_game_over = FALSE
    /\ pm_score = 0 /\ pm_lives = 0 /\ pacman_action = "" /\ current_lives = 0
    /\ gamePc = "none" /\ tickLog = <<>> /\ tickStart = <<>> /\ lastPercepts = <<>>

\* KnowledgeBaseB.__init__: the fields of a new knowledge base (percepts, which
\* tell stores and nothing reads, is left out).
KnowledgeBaseB ==
    [walls |-> {}, safe_tiles |-> {}, unknown_tiles |-> {}, junctions |-> {},
     believed_pellets |-> {}, initialized |-> FALSE, my_pos |-> <<>>,
     pacman_visible |-> FALSE, pacman_last_pos |-> <<>>, clues |-> <<>>,
     goal |-> <<>>, current_path |-> <<>>, visited_junctions |-> <<>>,
     is_loitering |-> FALSE, loiter_timer |-> 0, loiter_anchor |-> <<>>]

\* What one call of KnowledgeBaseB.ask did: the goal _select_new_goal returned
\* (selected is FALSE when it was not called), and whether the move came from
\* _get_random_optimistic_move or from _execute_loiter_step.
PlanB(selected, new_goal, fallback, loiter) ==
    [selected |-> selected, new_goal |-> new_goal, fallback |-> fallback, loiter |-> loiter]

\* No Ghost B is constructed.
GhostBIdle ==
    /\ kbB = KnowledgeBaseB
    /\ envB = [pacman_pos |-> <<0, 0>>, ghostB_pos |-> <<0, 0>>, pellets |-> {}, lives |-> 0]
    /\ pcB = "off" /\ moveB = "" /\ planB = PlanB(FALSE, <<>>, FALSE, FALSE)
    /\ argsB = [pacman_pos |-> <<>>, percepts |-> <<>>] /\ ticksB = 0
    /\ prevB = KnowledgeBaseB

InitUnify ==
    /\ uQuery \in UPreds
    /\ uFact \in UPreds
    /\ uResult = UnifyNone
    /\ uDone = FALSE
    /\ BfsIdle /\ VacuumIdle /\ GhostCIdle /\ GhostAIdle /\ GameIdle /\ GhostBIdle

CallUnify ==
    /\ ~uDone
    /\ uResult' = unify(uQuery, uFact)
    /\ uDone' = TRUE
    /\ UNCHANGED <<uQuery, uFact, exceptU>>

NextUnify == CallUnify

SpecUnify == InitUnify /\ [][NextUnify]_vars

---------------------------------------------------------------------------
(* Properties of unify                                                     *)

\* The argument positions of a predicate.
Positions(p) == 1..Len(p.args)

\* The names of the Variables occurring in a predicate.
QueryVars(p) == {p.args[i].s : i \in {j \in Positions(p) : IsVariable(p.args[j])}}

\* q is f with some of its arguments replaced by pairwise-distinct Variables.
FromFactByFreshVars(q, f) ==
    /\ q.type = f.type
    /\ Len(q.args) = Len(f.args)
    /\ \A i \in Positions(q) : q.args[i] = f.args[i] \/ IsVariable(q.args[i])
    /\ \A i, j \in Positions(q) :
         (i # j /\ IsVariable(q.args[i]) /\ IsVariable(q.args[j])) => q.args[i] # q.args[j]

\* C1: for a ground fact and a query made from it by replacing any subset of
\* its arguments with pairwise-distinct fresh Variables, unify returns a
\* substitution whose domain is exactly those Variables and that maps each
\* Variable to the Constant at the same position of the fact.
C1_UnifySuccess ==
    (uDone /\ is_ground(uFact) /\ FromFactByFreshVars(uQuery, uFact)) =>
        /\ uResult.ok
        /\ SubDomain(uResult.sub) = QueryVars(uQuery)
        /\ \A i \in Positions(uQuery) :
             IsVariable(uQuery.args[i]) => uResult.sub[uQuery.args[i].s] = uFact.args[i]

C1_Witness ==
    /\ uDone /\ is_ground(uFact) /\ FromFactByFreshVars(uQuery, uFact)
    /\ Cardinality(QueryVars(uQuery)) = 2
    /\ uResult.ok

\* C9: two ground predicates of the same type and arity that differ in some
\* argument do not unify, and unify returns None whenever the types or the
\* arities of query and fact differ.
C9_UnifyFailure ==
    uDone =>
        /\ ( /\ is_ground(uQuery) /\ is_ground(uFact)
             /\ uQuery.type = uFact.type
             /\ Len(uQuery.args) = Len(uFact.args)
             /\ \E i \in Positions(uQuery) : uQuery.args[i] # uFact.args[i] )
           => ~uResult.ok
        /\ (uQuery.type # uFact.type \/ Len(uQuery.args) # Len(uFact.args)) => ~uResult.ok

C9_Witness ==
    /\ uDone /\ is_ground(uQuery) /\ is_ground(uFact)
    /\ uQuery.type = uFact.type
    /\ Len(uQuery.args) = 2 /\ Len(uFact.args) = 2
    /\ uQuery.args[1] = uFact.args[1] /\ uQuery.args[2] # uFact.args[2]
    /\ ~uResult.ok

\* Two distinct positions of the query holding the same Variable.
SameVarAt(q, i, j) == i # j /\ IsVariable(q.args[i]) /\ q.args[i] = q.args[j]

\* C10: when one Variable occurs at several positions of the query, unify
\* succeeds only if the fact holds equal Constants at all of them, and then
\* binds the Variable to that Constant; if two of those positions hold
\* different values it returns None.
C10_BindingConsistency ==
    (uDone /\ uQuery.type = uFact.type /\ Len(uQuery.args) = Len(uFact.args)) =>
        \A i, j \in Positions(uQuery) :
            SameVarAt(uQuery, i, j) =>
                /\ uResult.ok =>
                     /\ IsConstant(uFact.args[i])
                     /\ uFact.args[i] = uFact.args[j]
                     /\ uResult.sub[uQuery.args[i].s] = uFact.args[i]
                /\ uFact.args[i] # uFact.args[j] => ~uResult.ok

C10_Witness ==
    /\ uDone /\ uResult.ok
    /\ \E i, j \in Positions(uQuery) : SameVarAt(uQuery, i, j)

---------------------------------------------------------------------------
(* Pathfinder (path_utils.py)                                              *)

\* get_neighbors: the four adjacent coordinates, in the order the code lists them.
get_neighbors(pos) ==
    << <<pos[1] + 1, pos[2]>>, <<pos[1] - 1, pos[2]>>,
       <<pos[1], pos[2] + 1>>, <<pos[1], pos[2] - 1>> >>

\* bfs_pathfinder's None.
NoPath == <<>>

\* queue.popleft(): the entry taken and the queue left.
PopRight(queue) == [item |-> queue[Len(queue)], rest |-> SubSeq(queue, 1, Len(queue) - 1)]
PopLeft(queue) == [item |-> Head(queue), rest |-> Tail(queue)]

\* The for loop over get_neighbors(current_pos), from neighbour i: either the
\* goal is met (found, with the path returned) or the queue and the visited
\* set as the loop leaves them.
RECURSIVE ScanNeighbors(_, _, _, _, _, _, _)
ScanNeighbors(pos, path, i, queue, visited, goal_pos, safe_tiles) ==
    IF i > 4
    THEN [found |-> FALSE, path |-> NoPath, queue |-> queue, visited |-> visited]
    ELSE LET neighbor == get_neighbors(pos)[i]
         IN  IF neighbor = goal_pos
             THEN [found |-> TRUE, path |-> Append(path, neighbor),
                   queue |-> queue, visited |-> visited]
             ELSE IF neighbor \in safe_tiles /\ neighbor \notin visited
             THEN ScanNeighbors(pos, path, i + 1,
                                Append(queue, [pos |-> neighbor, path |-> Append(path, neighbor)]),
                                visited \cup {neighbor}, goal_pos, safe_tiles)
             ELSE ScanNeighbors(pos, path, i + 1, queue, visited, goal_pos, safe_tiles)

\* The while loop of bfs_pathfinder.
RECURSIVE BfsLoop(_, _, _, _)
BfsLoop(queue, visited, goal_pos, safe_tiles) ==
    IF queue = <<>> THEN NoPath
    ELSE LET popped == PopLeft(queue)
             scan == ScanNeighbors(popped.item.pos, popped.item.path, 1, popped.rest,
                                   visited, goal_pos, safe_tiles)
         IN  IF scan.found THEN scan.path
             ELSE BfsLoop(scan.queue, scan.visited, goal_pos, safe_tiles)

bfs_pathfinder(start_pos, goal_pos, safe_tiles) ==
    IF start_pos = goal_pos THEN <<start_pos>>
    ELSE BfsLoop(<<[pos |-> start_pos, path |-> <<start_pos>>]>>, {start_pos},
                 goal_pos, safe_tiles)

---------------------------------------------------------------------------
(* SpecBfs: bfs_pathfinder applied to every start, goal and tile set of a  *)
(* small grid                                                              *)

\* The grid is (0..GridMax) x (0..GridMax); a tile set is the grid less at
\* most MaxHoles coordinates.
GridMax == 2
MaxHoles == 3

Grid == (0..GridMax) \X (0..GridMax)
\* A coordinate away from the grid and from all of its neighbours.
FarCoord == <<GridMax + 3, GridMax + 3>>

TileSets == {Grid \ holes : holes \in {h \in SUBSET Grid : Cardinality(h) <= MaxHoles}}

InitBfs ==
    /\ bTiles \in TileSets
    /\ bStart \in Grid
    /\ bGoal \in Grid \cup {FarCoord}
    /\ bResult = NoPath
    /\ bDone = FALSE
    /\ UnifyIdle /\ VacuumIdle /\ GhostCIdle /\ GhostAIdle /\ GameIdle /\ GhostBIdle

CallBfs ==
    /\ ~bDone
    /\ bResult' = bfs_pathfinder(bStart, bGoal, bTiles)
    /\ bDone' = TRUE
    /\ UNCHANGED <<bStart, bGoal, bTiles, exceptB>>

NextBfs == CallBfs

SpecBfs == InitBfs /\ [][NextBfs]_vars

---------------------------------------------------------------------------
(* Properties of bfs_pathfinder                                            *)

Abs(n) == IF n < 0 THEN -n ELSE n

\* Two coordinates one cardinal step apart.
Adjacent(a, b) == Abs(a[1] - b[1]) + Abs(a[2] - b[2]) = 1

\* The coordinates of `allowed` that a chain of at most n cardinal steps
\* through `allowed` joins to a coordinate of S.
RECURSIVE ReachWithin(_, _, _)
ReachWithin(S, allowed, n) ==
    IF n <= 0 THEN S
    ELSE ReachWithin(S \cup {c \in allowed : \E r \in S : Adjacent(r, c)}, allowed, n - 1)

\* A chain of at most n cardinal steps from a to b exists whose coordinates
\* (a and b included) all belong to `allowed`.
ChainWithin(a, b, allowed, n) ==
    /\ n >= 0
    /\ a \in allowed
    /\ b \in ReachWithin({a}, allowed, n)

\* A chain of any length.
ChainExists(a, b, allowed) == ChainWithin(a, b, allowed, Cardinality(allowed))

\* The 3x3 grid less its centre.
Grid3MinusCentre == ((0..2) \X (0..2)) \ {<<1, 1>>}

\* C2: a path returned by bfs_pathfinder begins with start, ends with goal,
\* joins cardinal neighbours only, and no chain through the tiles with fewer
\* steps exists; on the 3x3 grid less its centre the path from (0,0) to (2,2)
\* has 5 coordinates and avoids the centre.
C2_BfsShortestPath ==
    (bDone /\ bResult # NoPath) =>
        /\ bResult[1] = bStart
        /\ bResult[Len(bResult)] = bGoal
        /\ \A i \in 1..(Len(bResult) - 1) : Adjacent(bResult[i], bResult[i + 1])
        /\ ~ChainWithin(bStart, bGoal, bTiles, Len(bResult) - 2)
        /\ (bTiles = Grid3MinusCentre /\ bStart = <<0, 0>> /\ bGoal = <<2, 2>>) =>
              /\ Len(bResult) = 5
              /\ \A i \in 1..Len(bResult) : bResult[i] # <<1, 1>>

C2_Witness ==
    /\ bDone
    /\ bTiles = Grid3MinusCentre /\ bStart = <<0, 0>> /\ bGoal = <<2, 2>>
    /\ Len(bResult) = 5

\* C3: bfs_pathfinder returns None exactly when no chain of cardinally
\* adjacent coordinates from start to goal lies wholly in the traversable
\* set, and every coordinate of a returned path, the goal included, is a
\* member of the traversable set.
C3_BfsRestrictedToTiles ==
    bDone =>
        /\ (bResult = NoPath) <=> ~ChainExists(bStart, bGoal, bTiles)
        /\ bResult # NoPath => \A i \in 1..Len(bResult) : bResult[i] \in bTiles

---------------------------------------------------------------------------
(* KnowledgeBaseWithFOL, the vacuum agent's fact store                     *)
(* (vacuum_kb_fol_agent.py)                                                *)

Position(x, y) == Pred("Position", <<x, y>>)
DirtAt(x, y) == Pred("DirtAt", <<x, y>>)
Blocked(x, y) == Pred("Blocked", <<x, y>>)

\* get_unifications: the substitutions of the stored facts of the query's
\* type that unify with the query.
get_unifications(fs, query) ==
    {r.sub : r \in {u \in {unify(query, f) : f \in {g \in fs : g.type = query.type}} : u.ok}}

\* The fact store after tell(predicate) of a ground predicate: a Position
\* first drops every stored Position.
TellFactsKeepOld(fs, predicate) == fs \cup {predicate}
TellFacts(fs, predicate) ==
    IF predicate.type = "Position"
    THEN {f \in fs : f.type # "Position"} \cup {predicate}
    ELSE fs \cup {predicate}

\* The grid of the call-by-call runs is (0..VacMax) x (0..VacMax):
\* env.w = env.h = VacMax + 1.
VacMax == 1
\* The number of tell and ask calls followed in one run.
MaxVacCalls == 3

\* _MOVES
VacMoves(d) ==
    CASE d = "E" -> <<1, 0>>
      [] d = "W" -> <<-1, 0>>
      [] d = "S" -> <<0, 1>>
      [] d = "N" -> <<0, -1>>

VacDirs == {"N", "S", "E", "W"}

\* The directions ask may return from (x_val, y_val): in bounds and not
\* unifying with a Blocked fact. The shuffle of _DIRS makes any of them the
\* first one found.
VacOpenDirs(fs, w, h, x_val, y_val) ==
    {d \in VacDirs :
        LET nx == x_val + VacMoves(d)[1]
            ny == y_val + VacMoves(d)[2]
        IN  /\ 0 <= nx /\ nx < w /\ 0 <= ny /\ ny < h
            /\ get_unifications(fs, Blocked(Const(nx), Const(ny))) = {}}

\* self.facts.discard(dirt_query)
discard_nothing(fs, dirt_query) == fs
discard_dirt(fs, dirt_query) == fs \ {dirt_query}

\* ask from the binding pos chosen as pos_results[0]: the store it leaves
\* and the action it returns.
VacAskFrom(fs, w, h, pos) ==
    LET x_val == pos["X"].i
        y_val == pos["Y"].i
        dirt_query == DirtAt(Const(x_val), Const(y_val))
    IN  IF get_unifications(fs, dirt_query) # {}
        THEN {[facts |-> discard_dirt(fs, dirt_query), action |-> "VACUUM"]}
        ELSE IF VacOpenDirs(fs, w, h, x_val, y_val) = {}
        THEN {[facts |-> fs, action |-> "WAIT"]}
        ELSE {[facts |-> fs, action |-> d] : d \in VacOpenDirs(fs, w, h, x_val, y_val)}

\* KnowledgeBaseWithFOL.ask: every outcome the iteration order of the fact
\* set and the shuffle allow.
VacAskOutcomes(fs, w, h) ==
    LET pos_results == get_unifications(fs, Position(Var("X"), Var("Y")))
    IN  IF pos_results = {}
        THEN {[facts |-> fs, action |-> "WAIT"]}
        ELSE UNION {VacAskFrom(fs, w, h, pos) : pos \in pos_results}

\* The predicates told: the three classes over in-grid constants and a Variable.
VTerms == {Const(n) : n \in 0..VacMax} \cup {Var("X")}
VPreds == {Pred(t, <<a, b>>) : t \in {"Position", "DirtAt", "Blocked"}, a \in VTerms, b \in VTerms}

InitVacuum ==
    /\ vfacts = {} /\ vw = VacMax + 1 /\ vh = VacMax + 1
    /\ vCall = Call("new", NoPred, FALSE)
    /\ vAction = "" /\ vLastPos = NoPred /\ vPosTells = 0 /\ vCalls = 0
    /\ EnvIdle
    /\ UnifyIdle /\ BfsIdle /\ GhostCIdle /\ GhostAIdle /\ GameIdle /\ GhostBIdle

\* KnowledgeBaseWithFOL.tell(predicate): raises ValueError, the store left
\* alone, unless the predicate is ground. vLastPos and vPosTells record the
\* last Position stored and how many were.
VacTell(predicate) ==
    /\ vCall.op # "off"
    /\ vCalls < MaxVacCalls
    /\ vCalls' = vCalls + 1
    /\ vAction' = ""
    /\ IF ~is_ground(predicate)
       THEN /\ vCall' = Call("tell", predicate, TRUE)
            /\ UNCHANGED <<vfacts, vLastPos, vPosTells>>
       ELSE /\ vCall' = Call("tell", predicate, FALSE)
            /\ vfacts' = TellFacts(vfacts, predicate)
            /\ vLastPos' = IF predicate.type = "Position" THEN predicate ELSE vLastPos
            /\ vPosTells' = IF predicate.type = "Position" THEN vPosTells + 1 ELSE vPosTells
    /\ UNCHANGED <<vw, vh, exceptV>>

\* KnowledgeBaseWithFOL.ask()
VacAsk ==
    /\ vCall.op # "off"
    /\ vCalls < MaxVacCalls
    /\ vCalls' = vCalls + 1
    /\ vCall' = Call("ask", NoPred, FALSE)
    /\ \E out \in VacAskOutcomes(vfacts, vw, vh) :
          /\ vfacts' = out.facts
          /\ vAction' = out.action
    /\ UNCHANGED <<vw, vh, vLastPos, vPosTells, exceptV>>

NextVacuum ==
    \/ \E predicate \in VPreds : VacTell(predicate)
    \/ VacAsk

SpecVacuum == InitVacuum /\ [][NextVacuum]_vars

\* The non-Position facts of a store.
NonPosition(fs) == {f \in fs : f.type # "Position"}

\* C4 (state part): once a Position has been told, the store holds exactly
\* one Position fact, the most recently told one.
C4_OnePosition ==
    vLastPos # NoPred => {f \in vfacts : f.type = "Position"} = {vLastPos}

\* C4 (step part): telling a Position leaves every non-Position fact alone.
C4_PositionFrame ==
    (vCalls' # vCalls /\ vCall'.op = "tell" /\ vCall'.pred.type = "Position")
        => NonPosition(vfacts') = NonPosition(vfacts)

\* C4: after any sequence of tell calls with at least one Position among
\* them, the store holds exactly one Position fact, the most recently told
\* one, and telling a Position leaves every non-Position fact unchanged.
C4_PositionFunctional == []C4_OnePosition /\ [][C4_PositionFrame]_vars

\* Two Positions told in sequence, beside a stored DirtAt fact.
C4_Witness ==
    /\ vPosTells = 2
    /\ vCall.op = "tell" /\ vCall.pred.type = "Position" /\ ~vCall.raised
    /\ \E f \in vfacts : f.type = "DirtAt"
    /\ Cardinality({f \in vfacts : f.type = "Position"}) = 1

---------------------------------------------------------------------------
(* KnowledgeBaseC, Ghost C's fact store (ghost_c_kb.py, predicates.py)     *)

LearnedWall(x, y) == Pred("LearnedWall", <<x, y>>)
LearnedSafe(x, y) == Pred("LearnedSafe", <<x, y>>)
PacmanPos(x, y) == Pred("PacmanPos", <<x, y>>)
VisitedAtTime(x, y, t) == Pred("VisitedAtTime", <<x, y, t>>)
EscapeState(tx, ty, start_time) == Pred("EscapeState", <<tx, ty, start_time>>)
\* LastPos.__init__ passes the string "LastPos" ahead of its three terms.
LastPos(ghost_id, x, y) == Pred("LastPos", <<Raw("LastPos"), ghost_id, x, y>>)
UnreachableGoal(x, y, timestamp) == Pred("UnreachableGoal", <<x, y, timestamp>>)
PacmanVector(dx, dy) == Pred("PacmanVector", <<dx, dy>>)
GhostPos(agent_id, x, y) == Pred("GhostPos", <<agent_id, x, y>>)

\* pacman_pos and last_pacman_pos when they are None.
None == <<>>

\* _assert_fact: the store after asserting fact.
assert_fact_unchecked(fs, fact) == fs \cup {fact}
assert_fact(fs, fact) == IF is_ground(fact) THEN fs \cup {fact} ELSE fs

\* _retract: the store after retracting every fact matching query_template.
retract_one(fs, query_template) ==
    IF \E f \in fs : unify(query_template, f).ok
    THEN fs \ {CHOOSE f \in fs : unify(query_template, f).ok}
    ELSE fs
retract(fs, query_template) == fs \ {f \in fs : unify(query_template, f).ok}

\* _query_exists
query_exists(fs, query) == get_unifications(fs, query) # {}

\* _retract_old_history: drops the VisitedAtTime facts older than keep_last_n.
retract_no_history(fs, now, keep_last_n) == fs
retract_old_history(fs, now, keep_last_n) ==
    fs \ {VisitedAtTime(r["X"], r["Y"], r["T"]) :
            r \in {u \in get_unifications(fs, VisitedAtTime(Var("X"), Var("Y"), Var("T"))) :
                     now - u["T"].i > keep_last_n}}

\* _retract_old_unreachable_goals: drops the UnreachableGoal facts older
\* than age_threshold.
retract_old_unreachable_goals(fs, now, age_threshold) ==
    fs \ {UnreachableGoal(r["X"], r["Y"], r["T"]) :
            r \in {u \in get_unifications(fs, UnreachableGoal(Var("X"), Var("Y"), Var("T"))) :
                     now - u["T"].i > age_threshold}}

\* The body of _learn_map_topology's loop for one percept entry.
learn_percept(fs, pos, item) ==
    LET px == Const(pos[1])
        py == Const(pos[2])
    IN  IF item = "WALL"
        THEN IF ~query_exists(fs, LearnedWall(px, py))
             THEN retract(assert_fact(fs, LearnedWall(px, py)), LearnedSafe(px, py))
             ELSE fs
        ELSE IF ~query_exists(fs, LearnedSafe(px, py))
             THEN assert_fact(fs, LearnedSafe(px, py))
             ELSE fs

\* The loop of _learn_map_topology over percepts.items(). Each entry reads and
\* writes only the facts of its own coordinate, so the order of the entries
\* does not change the result; the entries left are taken in a fixed order.
RECURSIVE learn_percepts(_, _, _)
learn_percepts(fs, percepts, todo) ==
    IF todo = {} THEN fs
    ELSE LET pos == CHOOSE c \in todo : TRUE
         IN  learn_percepts(learn_percept(fs, pos, percepts[pos]), percepts, todo \ {pos})

\* _learn_map_topology
learn_map_topology(fs, pos, percepts) ==
    LET cx == Const(pos[1])
        cy == Const(pos[2])
        here == IF ~query_exists(fs, LearnedSafe(cx, cy))
                THEN assert_fact(fs, LearnedSafe(cx, cy))
                ELSE fs
    IN  learn_percepts(here, percepts, DOMAIN percepts)

\* _retract_dynamic_beliefs
retract_dynamic_none(fs) == fs
retract_dynamic_beliefs(fs) ==
    retract(retract(retract(fs, GhostPos(Var("ID"), Var("X"), Var("Y"))),
                    PacmanPos(Var("X"), Var("Y"))),
            PacmanVector(Var("DX"), Var("DY")))

\* The loop of tell asserting a GhostPos fact per entry of other_ghost_pos.
RECURSIVE assert_other_ghosts(_, _, _)
assert_other_ghosts(fs, other_ghost_pos, i) ==
    IF i > Len(other_ghost_pos) THEN fs
    ELSE assert_other_ghosts(
            assert_fact(fs, GhostPos(ConstS(other_ghost_pos[i][1]),
                                     Const(other_ghost_pos[i][2][1]),
                                     Const(other_ghost_pos[i][2][2]))),
            other_ghost_pos, i + 1)

\* last_pacman_vector after tell: replaced by a non-zero displacement between
\* the previous and the present sighting.
tell_vector(pacman_pos, last_pos, last_vector) ==
    IF pacman_pos # None /\ last_pos # None
       /\ (pacman_pos[1] - last_pos[1] # 0 \/ pacman_pos[2] - last_pos[2] # 0)
    THEN <<pacman_pos[1] - last_pos[1], pacman_pos[2] - last_pos[2]>>
    ELSE last_vector

\* The fact store after tell, at the incremented time now.
tell_facts(fs, now, pos, pacman_pos, other_ghost_pos, percepts, last_pos, last_vector) ==
    LET f1 == retract_old_history(fs, now, 10)
        f2 == assert_fact(f1, VisitedAtTime(Const(pos[1]), Const(pos[2]), Const(now)))
        f3 == retract_old_unreachable_goals(f2, now, 7)
        f4 == retract(f3, LastPos(ConstS("C"), Var("X"), Var("Y")))
        f5 == assert_fact(f4, LastPos(ConstS("C"), Const(pos[1]), Const(pos[2])))
        f6 == learn_map_topology(f5, pos, percepts)
        f7 == retract_dynamic_beliefs(f6)
        f8 == assert_fact(f7, GhostPos(ConstS("C"), Const(pos[1]), Const(pos[2])))
        f9 == assert_other_ghosts(f8, other_ghost_pos, 1)
        vec == tell_vector(pacman_pos, last_pos, last_vector)
    IN  IF pacman_pos # None
        THEN assert_fact(assert_fact(f9, PacmanPos(Const(pacman_pos[1]), Const(pacman_pos[2]))),
                         PacmanVector(Const(vec[1]), Const(vec[2])))
        ELSE f9

\* KnowledgeBaseC.__init__
InitGhostC ==
    /\ facts = {} /\ my_pos = <<24, 8>> /\ goal = None /\ current_path = <<>>
    /\ last_pacman_pos = None
    /\ last_pacman_vector = <<0, 0>> /\ current_time = 0
    /\ cArgs = TellArgs(None, <<>>, <<>>) /\ cMove = ""
    /\ cPlan = PlanInfo(None, FALSE, FALSE)
    /\ cCall = Call("new", NoPred, FALSE) /\ cCalls = 0
    /\ UnifyIdle /\ BfsIdle /\ VacuumIdle /\ GhostAIdle /\ GameIdle /\ GhostBIdle

\* The number of tell calls followed in one run.
MaxTime == 2

\* KnowledgeBaseC.tell(my_pos, pacman_pos, other_ghost_pos, percepts)
Tell(pos, pacman_pos, other_ghost_pos, percepts) ==
    /\ cCall.op # "off"
    /\ current_time' = current_time + 1
    /\ my_pos' = pos
    /\ facts' = tell_facts(facts, current_time + 1, pos, pacman_pos, other_ghost_pos,
                           percepts, last_pacman_pos, last_pacman_vector)
    /\ last_pacman_vector' = tell_vector(pacman_pos, last_pacman_pos, last_pacman_vector)
    /\ last_pacman_pos' = IF pacman_pos # None THEN pacman_pos ELSE last_pacman_pos
    /\ cArgs' = TellArgs(pacman_pos, other_ghost_pos, percepts)
    /\ cCall' = Call("tell", NoPred, FALSE)
    /\ UNCHANGED <<goal, current_path, cMove, cPlan, cCalls, exceptC>>

\* The maze coordinates the percepts speak of: a corridor (0..CMax) x {0}.
CMax == 1
CGrid == (0..CMax) \X {0}

\* A percept map: empty, or one coordinate seen as a wall or as floor (the
\* code treats every label other than "WALL" alike, and handles each entry
\* of a map on its own).
PerceptMaps == {<<>>} \cup {c :> item : c \in CGrid, item \in {"WALL", "EMPTY"}}

\* The two ends of the corridor.
CEnds == {<<0, 0>>, <<CMax, 0>>}

\* other_ghost_pos: no ghost in sight, or ghost A seen at an end of the
\* corridor.
OtherGhostLists == {<<>>} \cup {<< <<"A", c>> >> : c \in CEnds}

\* Pac-Man, when visible, is seen at an end of the corridor.
TellAny ==
    /\ current_time < MaxTime
    /\ \E pos \in CGrid, pacman_pos \in CEnds \cup {None},
          other_ghost_pos \in OtherGhostLists, percepts \in PerceptMaps :
            Tell(pos, pacman_pos, other_ghost_pos, percepts)

NextGhostC == TellAny

SpecGhostC == InitGhostC /\ [][NextGhostC]_vars

---------------------------------------------------------------------------
(* SpecStores: the two fact stores exercised call by call. A run builds    *)
(* one knowledge base: the vacuum agent's (tell and ask), or Ghost C's,    *)
(* driven either by tell or by direct calls of _assert_fact and _retract   *)
(* on a store that no tell has touched.                                    *)

\* The number of direct _assert_fact and _retract calls followed in one run.
MaxDirectCalls == 3

\* KnowledgeBaseC._assert_fact(fact), called directly.
AssertFact(fact) ==
    /\ cCall.op # "off"
    /\ cCalls < MaxDirectCalls
    /\ cCalls' = cCalls + 1
    /\ facts' = assert_fact(facts, fact)
    /\ cCall' = Call("_assert_fact", fact, FALSE)
    /\ UNCHANGED <<my_pos, goal, current_path, last_pacman_pos, last_pacman_vector,
                   current_time, cArgs, cMove, cPlan, exceptC>>

\* KnowledgeBaseC._retract(query_template), called directly.
Retract(query_template) ==
    /\ cCall.op # "off"
    /\ cCalls < MaxDirectCalls
    /\ cCalls' = cCalls + 1
    /\ facts' = retract(facts, query_template)
    /\ cCall' = Call("_retract", query_template, FALSE)
    /\ UNCHANGED <<my_pos, goal, current_path, last_pacman_pos, last_pacman_vector,
                   current_time, cArgs, cMove, cPlan, exceptC>>

\* The predicates of the direct calls: the two map classes over the corridor's
\* coordinates and the Variables X and Y, and the facts ask asserts (its
\* EscapeState and UnreachableGoal, built from Constants at the current time,
\* ghost_c_kb.py lines 167, 263 and 277).
CPreds ==
    {Pred(t, <<x, y>>) :
        t \in {"LearnedWall", "LearnedSafe"},
        x \in {Const(n) : n \in 0..CMax} \cup {Var("X")},
        y \in {Const(0), Var("X"), Var("Y")}}
    \cup {EscapeState(Const(c[1]), Const(c[2]), Const(0)) : c \in CGrid}
    \cup {UnreachableGoal(Const(c[1]), Const(c[2]), Const(0)) : c \in CGrid}

DirectCall ==
    \/ \E fact \in CPreds : AssertFact(fact)
    \/ \E query_template \in CPreds : Retract(query_template)

InitStores == InitVacuum \/ InitGhostC

NextStores ==
    \/ NextVacuum
    \/ (cCalls = 0 /\ TellAny)
    \/ (current_time = 0 /\ DirectCall)

SpecStores == InitStores /\ [][NextStores]_vars

---------------------------------------------------------------------------
(* Properties of the fact stores                                           *)

\* A predicate with a Variable among its arguments.
HasVariable(p) == \E i \in Positions(p) : IsVariable(p.args[i])

\* A vacuum tell of a predicate with a Variable is taken in this step.
VacTellsVariable == vCalls' # vCalls /\ vCall'.op = "tell" /\ HasVariable(vCall'.pred)
\* A Ghost C _assert_fact of a predicate with a Variable is taken in this step.
GhostCAssertsVariable ==
    cCalls' # cCalls /\ cCall'.op = "_assert_fact" /\ HasVariable(cCall'.pred)

\* Neither store changes when a predicate with a Variable is asserted.
NonGroundFrame ==
    /\ VacTellsVariable => vfacts' = vfacts
    /\ GhostCAssertsVariable => facts' = facts

\* No call asserting a predicate with a Variable raises.
NonGroundNeverRaises ==
    /\ (vCall.op = "tell" /\ HasVariable(vCall.pred)) => ~vCall.raised
    /\ (cCall.op = "_assert_fact" /\ HasVariable(cCall.pred)) => ~cCall.raised

\* The vacuum tell raises on a predicate with a Variable; _assert_fact does not.
NonGroundRaisesInTellOnly ==
    /\ (vCall.op = "tell" /\ HasVariable(vCall.pred)) => vCall.raised
    /\ (cCall.op = "_assert_fact" /\ HasVariable(cCall.pred)) => ~cCall.raised

C6_StoresGround ==
    /\ \A f \in vfacts : is_ground(f)
    /\ \A f \in facts : is_ground(f)

\* Two tells done by Ghost C, the store holding facts of three classes.
C6_Witness ==
    /\ cCall.op = "tell" /\ current_time = 2
    /\ Cardinality({f.type : f \in facts}) >= 3

\* C7: no coordinate holds both a LearnedWall and a LearnedSafe fact.
C7_WallSafeExclusive ==
    \A w \in facts, f \in facts :
        (w.type = "LearnedWall" /\ f.type = "LearnedSafe") => w.args # f.args

\* The ground fact f is the pattern q with its Variables replaced by Constants.
Instance(q, f) ==
    /\ q.type = f.type
    /\ Len(q.args) = Len(f.args)
    /\ \E sigma \in [QueryVars(q) -> {f.args[i] : i \in Positions(f)}] :
         \A i \in Positions(q) :
            IF IsVariable(q.args[i]) THEN sigma[q.args[i].s] = f.args[i]
                                     ELSE q.args[i] = f.args[i]

\* A pattern P(X, Y) of two distinct Variables.
TwoDistinctVars(q) ==
    /\ Len(q.args) = 2
    /\ IsVariable(q.args[1]) /\ IsVariable(q.args[2])
    /\ q.args[1] # q.args[2]

\* The effect of a step that calls _retract directly.
RetractStep ==
    (cCalls' # cCalls /\ cCall'.op = "_retract") =>
        /\ facts' = {f \in facts : ~Instance(cCall'.pred, f)}
        /\ TwoDistinctVars(cCall'.pred) => facts' = {f \in facts : f.type # cCall'.pred.type}

\* C8: _retract(pattern) removes exactly the stored facts that are instances
\* of the pattern (for P(X, Y) with distinct Variables: every fact of class
\* P) and leaves every other fact, those of other classes included,
\* unchanged.
C8_RetractByPattern == [][RetractStep]_vars

\* _retract(P(X, Y)) has emptied class P and left a fact of the other class.
C8_Witness ==
    /\ cCall.op = "_retract" /\ TwoDistinctVars(cCall.pred)
    /\ cCalls = 3
    /\ facts # {}
    /\ \A f \in facts : f.type # cCall.pred.type

---------------------------------------------------------------------------
(* Properties of KnowledgeBaseC.tell                                       *)

\* The stored facts of one class.
OfType(fs, type) == {f \in fs : f.type = type}

\* C11: after every tell the store holds exactly one GhostPos fact for agent
\* 'C', at my_pos; at most one GhostPos fact per other ghost id; a PacmanPos
\* fact exactly when Pac-Man was reported, only one and at the reported
\* position; and at most one PacmanVector fact.
C11_DynamicBeliefsFunctional ==
    cCall.op = "tell" =>
        /\ {f \in OfType(facts, "GhostPos") : f.args[1] = ConstS("C")}
             = {GhostPos(ConstS("C"), Const(my_pos[1]), Const(my_pos[2]))}
        /\ \A f \in OfType(facts, "GhostPos"), g \in OfType(facts, "GhostPos") :
                f.args[1] = g.args[1] => f = g
        /\ OfType(facts, "PacmanPos")
             = IF cArgs.pacman_pos # None
               THEN {PacmanPos(Const(cArgs.pacman_pos[1]), Const(cArgs.pacman_pos[2]))}
               ELSE {}
        /\ Cardinality(OfType(facts, "PacmanVector")) <= 1

\* A second tell that reports Pac-Man away from where the first tell saw it,
\* and ghost A.
C11_Witness ==
    /\ cCall.op = "tell" /\ current_time = 2
    /\ cArgs.pacman_pos # None /\ last_pacman_vector # <<0, 0>>
    /\ cArgs.other_ghost_pos # <<>>
    /\ Cardinality(OfType(facts, "GhostPos")) = 2

---------------------------------------------------------------------------
(* KnowledgeBaseA, Ghost A's propositional state machine (ghost_a_kb.py)   *)

STATE_PATROLLING == "PATROLLING"
STATE_CHASING == "CHASING"
STATE_PURSUING == "PURSUING"
STATE_INVESTIGATING == "INVESTIGATING"

\* MOVES (types_utils.py)
MOVES ==
    [m \in {"UP", "DOWN", "LEFT", "RIGHT", "WAIT"} |->
        CASE m = "UP" -> <<0, -1>>
          [] m = "DOWN" -> <<0, 1>>
          [] m = "LEFT" -> <<-1, 0>>
          [] m = "RIGHT" -> <<1, 0>>
          [] OTHER -> <<0, 0>>]

\* The cardinal moves in the order of MOVES.items().
CardinalMoves == <<"UP", "DOWN", "LEFT", "RIGHT">>

\* The tile a move leads to.
MoveFrom(pos, move) == <<pos[1] + MOVES[move][1], pos[2] + MOVES[move][2]>>

\* KnowledgeBaseA._get_neighbors
a_get_neighbors(pos) ==
    << <<pos[1] + 1, pos[2]>>, <<pos[1] - 1, pos[2]>>,
       <<pos[1], pos[2] + 1>>, <<pos[1], pos[2] - 1>> >>

\* KnowledgeBaseA._get_reverse
a_get_reverse(move) ==
    CASE move = "UP" -> "DOWN"
      [] move = "DOWN" -> "UP"
      [] move = "LEFT" -> "RIGHT"
      [] move = "RIGHT" -> "LEFT"
      [] OTHER -> "WAIT"

\* The elements of a sequence.
Range(seq) == {seq[i] : i \in DOMAIN seq}

\* seq followed by the elements of more that it does not hold yet.
RECURSIVE AppendMissing(_, _, _)
AppendMissing(seq, more, i) ==
    IF i > Len(more) THEN seq
    ELSE AppendMissing(IF more[i] \in Range(seq) THEN seq ELSE Append(seq, more[i]),
                       more, i + 1)

\* The candidate list of _smart_move: the axis with the larger offset, the
\* other axis if it has an offset, then the remaining moves.
smart_candidates(dx, dy) ==
    LET horizontal == IF dx > 0 THEN "RIGHT" ELSE "LEFT"
        vertical == IF dy > 0 THEN "DOWN" ELSE "UP"
        wanted == IF Abs(dx) >= Abs(dy)
                  THEN IF dy # 0 THEN <<horizontal, vertical>> ELSE <<horizontal>>
                  ELSE IF dx # 0 THEN <<vertical, horizontal>> ELSE <<vertical>>
    IN  AppendMissing(wanted, <<"UP", "DOWN", "LEFT", "RIGHT">>, 1)

\* The first move of candidates, whatever its destination.
first_move(candidates, pos, walls) == candidates[1]

\* The first move of candidates whose destination is not a known wall.
first_safe_move(candidates, pos, walls) ==
    LET ok == {i \in DOMAIN candidates : MoveFrom(pos, candidates[i]) \notin walls}
    IN  IF ok = {} THEN "WAIT"
        ELSE candidates[CHOOSE i \in ok : \A j \in ok : i <= j]

\* KnowledgeBaseA._smart_move
smart_move(target, pos, walls) ==
    IF target = <<>> THEN "WAIT"
    ELSE first_safe_move(smart_candidates(target[1] - pos[1], target[2] - pos[2]), pos, walls)

\* _get_patrol_move without the momentum rule and the reverse filter.
get_patrol_move_any_valid(pos, walls, last_move) ==
    LET valid_moves == SelectSeq(CardinalMoves, LAMBDA m : MoveFrom(pos, m) \notin walls)
    IN  IF valid_moves = <<>> THEN {"WAIT"} ELSE Range(valid_moves)

\* KnowledgeBaseA._get_patrol_move: the moves it can return.
get_patrol_move(pos, walls, last_move) ==
    LET valid_moves == SelectSeq(CardinalMoves, LAMBDA m : MoveFrom(pos, m) \notin walls)
        non_reverse_moves == Range(valid_moves) \ {a_get_reverse(last_move)}
    IN  IF valid_moves = <<>> THEN {"WAIT"}
        ELSE IF last_move \in Range(valid_moves) THEN {last_move}
        ELSE IF non_reverse_moves # {} THEN non_reverse_moves
        ELSE {valid_moves[1]}

\* The state propositions of Ghost A that _update_state_logic writes.
AState(state, known, target) ==
    [current_state |-> state, last_known_pacman |-> known, investigation_target |-> target]

\* Rule 1 of _update_state_logic: detection.
rule_detection_skipped(see) == FALSE
rule_detection(see) == see

\* Rule 2 of _update_state_logic: sight lost while chasing.
rule_lost_sight_skipped(state) == FALSE
rule_lost_sight(state) == state = STATE_CHASING

\* _update_state_logic with rule 3 applied on arrival from any state.
update_state_logic_any_arrival(state, known, target, see, percept, pos, walls) ==
    IF rule_detection(see) THEN {AState(STATE_CHASING, percept, target)}
    ELSE IF rule_lost_sight(state) THEN {AState(STATE_PURSUING, known, target)}
    ELSE IF pos = known
    THEN LET options == Range(a_get_neighbors(pos)) \ walls
         IN  IF options # {}
             THEN {AState(STATE_INVESTIGATING, known, n) : n \in options}
             ELSE {AState(STATE_PATROLLING, known, target)}
    ELSE IF state = STATE_INVESTIGATING
    THEN IF pos = target \/ target \in walls
         THEN {AState(STATE_PATROLLING, known, target)}
         ELSE {AState(state, known, target)}
    ELSE {AState(state, known, target)}

\* KnowledgeBaseA._update_state_logic: the outcomes it can produce (the
\* investigation target is a random choice).
update_state_logic(state, known, target, see, percept, pos, walls) ==
    IF rule_detection(see) THEN {AState(STATE_CHASING, percept, target)}
    ELSE IF rule_lost_sight(state) THEN {AState(STATE_PURSUING, known, target)}
    ELSE IF state = STATE_PURSUING /\ pos = known
    THEN LET options == Range(a_get_neighbors(pos)) \ walls
         IN  IF options # {}
             THEN {AState(STATE_INVESTIGATING, known, n) : n \in options}
             ELSE {AState(STATE_PATROLLING, known, target)}
    ELSE IF state = STATE_INVESTIGATING
    THEN IF pos = target \/ target \in walls
         THEN {AState(STATE_PATROLLING, known, target)}
         ELSE {AState(state, known, target)}
    ELSE {AState(state, known, target)}

\* KnowledgeBaseA.__init__
InitGhostA ==
    /\ a_walls = {} /\ a_safe_tiles = {} /\ a_current_state = STATE_PATROLLING
    /\ a_last_known_pacman = None /\ a_last_move = "WAIT"
    /\ a_investigation_target = None /\ a_my_pos = <<0, 0>>
    /\ a_see_pacman = FALSE /\ a_pacman_pos_percept = None
    /\ aCall = "new" /\ aTells = 0 /\ aStates = <<>>
    /\ UnifyIdle /\ BfsIdle /\ VacuumIdle /\ GhostCIdle /\ GameIdle /\ GhostBIdle

\* The number of tell calls followed in one run of Ghost A.
MaxATells == 4

\* The coordinates a percept map labels as walls.
WallEntries(percepts) == {c \in DOMAIN percepts : percepts[c] = "WALL"}

\* KnowledgeBaseA.tell(my_pos, pacman_pos, other_ghost_pos, percepts)
ATell(pos, pacman_pos, percepts) ==
    /\ aCall # "off"
    /\ aTells < MaxATells
    /\ aTells' = aTells + 1
    /\ a_my_pos' = pos
    /\ a_walls' = a_walls \cup WallEntries(percepts)
    /\ a_safe_tiles' = (a_safe_tiles \ WallEntries(percepts))
                          \cup (DOMAIN percepts \ WallEntries(percepts))
    /\ a_pacman_pos_percept' = pacman_pos
    /\ a_see_pacman' = (pacman_pos # None)
    /\ \E next \in update_state_logic(a_current_state, a_last_known_pacman,
                                      a_investigation_target, pacman_pos # None,
                                      pacman_pos, pos, a_walls') :
        /\ a_current_state' = next.current_state
        /\ a_last_known_pacman' = next.last_known_pacman
        /\ a_investigation_target' = next.investigation_target
        /\ aStates' = Append(aStates, next.current_state)
    /\ aCall' = "tell"
    /\ UNCHANGED <<a_last_move, exceptA>>

\* KnowledgeBaseA.ask: the moves it can return.
a_ask_moves ==
    IF a_current_state \in {STATE_CHASING, STATE_PURSUING}
    THEN {smart_move(a_last_known_pacman, a_my_pos, a_walls)}
    ELSE IF a_current_state = STATE_INVESTIGATING
    THEN {smart_move(a_investigation_target, a_my_pos, a_walls)}
    ELSE get_patrol_move(a_my_pos, a_walls, a_last_move)

\* KnowledgeBaseA.ask()
AAsk ==
    /\ aCall # "off"
    /\ \E action \in a_ask_moves : a_last_move' = action
    /\ aCall' = "ask"
    /\ UNCHANGED <<a_walls, a_safe_tiles, a_current_state, a_last_known_pacman,
                   a_investigation_target, a_my_pos, a_see_pacman, a_pacman_pos_percept,
                   aTells, aStates, exceptA>>

\* Ghost A walks a corridor (0..AMax) x {0}.
AMax == 1
AGrid == (0..AMax) \X {0}

\* The ends of Ghost A's corridor, where Pac-Man can be seen.
AEnds == {<<0, 0>>, <<AMax, 0>>}

\* The percept maps of a ghost standing at pos: nothing seen, the neighbour
\* to the right seen as a wall, every neighbour seen as a wall, or every
\* neighbour seen as floor.
APerceptMaps(pos) ==
    {<<>>, <<pos[1] + 1, pos[2]>> :> "WALL"}
    \cup {[n \in Range(a_get_neighbors(pos)) |-> item] : item \in {"WALL", "EMPTY"}}

ATellAny ==
    \E pos \in AGrid, pacman_pos \in AEnds \cup {None} :
        \E percepts \in APerceptMaps(pos) : ATell(pos, pacman_pos, percepts)

NextGhostA == ATellAny \/ AAsk

SpecGhostA == InitGhostA /\ [][NextGhostA]_vars

---------------------------------------------------------------------------
(* Properties of Ghost A's state machine                                   *)

\* C12: after a tell that reports a target position, the state is CHASING
\* and last_known_pacman is the reported position.
C12_SightRule ==
    (aCall = "tell" /\ a_pacman_pos_percept # None) =>
        /\ a_current_state = STATE_CHASING
        /\ a_last_known_pacman = a_pacman_pos_percept

\* A tell with Pac-Man in sight made while the machine was pursuing.
C12_Witness ==
    /\ aCall = "tell" /\ a_pacman_pos_percept # None
    /\ Len(aStates) >= 3 /\ aStates[Len(aStates) - 1] = STATE_PURSUING

\* A step that is a tell.
IsATell == aTells' = aTells + 1

\* Some tile one cardinal step from pos is not a known wall.
HasOpenNeighbour(pos, walls) ==
    \E d \in {<<1, 0>>, <<-1, 0>>, <<0, 1>>, <<0, -1>>} :
        <<pos[1] + d[1], pos[2] + d[2]>> \notin walls

\* The steps of the pursuit scenario.
PursuitStep ==
    /\ (IsATell /\ a_see_pacman') => a_current_state' = STATE_CHASING
    /\ (IsATell /\ ~a_see_pacman' /\ a_current_state = STATE_CHASING) =>
            /\ a_current_state' = STATE_PURSUING
            /\ a_last_known_pacman' = a_last_known_pacman
    /\ (IsATell /\ ~a_see_pacman' /\ a_current_state = STATE_PURSUING
            /\ a_my_pos' # a_last_known_pacman) =>
            /\ a_current_state' = STATE_PURSUING
            /\ a_last_known_pacman' = a_last_known_pacman
    /\ (IsATell /\ ~a_see_pacman' /\ a_current_state = STATE_PURSUING
            /\ a_my_pos' = a_last_known_pacman /\ HasOpenNeighbour(a_my_pos', a_walls')) =>
            a_current_state' = STATE_INVESTIGATING
    /\ ~IsATell =>
            /\ a_current_state' = a_current_state
            /\ a_last_known_pacman' = a_last_known_pacman

\* C13: the state is CHASING after each tell with sight, PURSUING at the
\* first tell without sight (last_known_pacman unchanged), still PURSUING
\* while the position differs from last_known_pacman, and INVESTIGATING at
\* the tell at which the position equals last_known_pacman with a neighbour
\* that is not a known wall; ask changes neither.
C13_PursuitScenario == [][PursuitStep]_vars

\* Sight, sight lost, a tell away from the last known position, arrival.
C13_Witness ==
    /\ aStates = <<STATE_CHASING, STATE_PURSUING, STATE_PURSUING, STATE_INVESTIGATING>>
    /\ a_my_pos = a_last_known_pacman
    /\ aCall = "tell"

---------------------------------------------------------------------------
(* The vacuum agent run by run_simulation in an Environment                *)
(* (vacuum_utils.py, vacuum_kb_fol_agent.py)                               *)

\* Environment.in_bounds
in_bounds(c, w, h) == 0 <= c[1] /\ c[1] < w /\ 0 <= c[2] /\ c[2] < h

\* Environment.blocked
blocked(c, w, h, obstacles) == ~in_bounds(c, w, h) \/ c \in obstacles

\* Environment.sense: the percept keys the agent reads.
sense(pos, dirt) == [pos |-> pos, dirt_here |-> pos \in dirt]

\* KnowledgeBaseAgent._store_facts: the store after its tell calls.
store_facts_no_dirt(fs, p, w, h, obstacles) ==
    LET x == p.pos[1]
        y == p.pos[2]
    IN  TellFacts(fs, Position(Const(x), Const(y)))
          \cup {Blocked(Const(x + VacMoves(d)[1]), Const(y + VacMoves(d)[2])) :
                  d \in {m \in VacDirs :
                           blocked(<<x + VacMoves(m)[1], y + VacMoves(m)[2]>>, w, h, obstacles)}}
store_facts_no_blocked(fs, p, w, h, obstacles) ==
    LET x == p.pos[1]
        y == p.pos[2]
        f1 == TellFacts(fs, Position(Const(x), Const(y)))
    IN  IF p.dirt_here THEN TellFacts(f1, DirtAt(Const(x), Const(y))) ELSE f1
store_facts(fs, p, w, h, obstacles) ==
    LET x == p.pos[1]
        y == p.pos[2]
        f1 == TellFacts(fs, Position(Const(x), Const(y)))
        f2 == IF p.dirt_here THEN TellFacts(f1, DirtAt(Const(x), Const(y))) ELSE f1
    IN  f2 \cup {Blocked(Const(x + VacMoves(d)[1]), Const(y + VacMoves(d)[2])) :
                   d \in {m \in VacDirs :
                            blocked(<<x + VacMoves(m)[1], y + VacMoves(m)[2]>>, w, h, obstacles)}}

\* The smaller of two integers.
Min2(a, b) == IF a <= b THEN a ELSE b

\* Environment.step(action): the fields it leaves.
EnvFields(pos, dirt, battery, time, cleaned, action_blocked) ==
    [pos |-> pos, dirt |-> dirt, battery |-> battery, time |-> time,
     cleaned |-> cleaned, action_blocked |-> action_blocked]
step(action) ==
    IF env_battery <= 0
    THEN EnvFields(env_pos, env_dirt, env_battery, env_time, env_cleaned, env_action_blocked)
    ELSE LET battery == IF action = "WAIT" /\ env_pos = env_dock
                        THEN Min2(env_battery - 1 + 5, env_max_battery)
                        ELSE env_battery - 1
             next == IF action \in VacDirs
                     THEN <<env_pos[1] + VacMoves(action)[1], env_pos[2] + VacMoves(action)[2]>>
                     ELSE env_pos
         IN  IF action = "VACUUM"
             THEN EnvFields(env_pos, env_dirt \ {env_pos}, battery, env_time + 1,
                            IF env_pos \in env_dirt THEN env_cleaned + 1 ELSE env_cleaned,
                            FALSE)
             ELSE IF action \in VacDirs
             THEN IF blocked(next, env_w, env_h, env_obstacles)
                  THEN EnvFields(env_pos, env_dirt, battery, env_time + 1, env_cleaned, TRUE)
                  ELSE EnvFields(next, env_dirt, battery, env_time + 1, env_cleaned, FALSE)
             ELSE EnvFields(env_pos, env_dirt, battery, env_time + 1, env_cleaned, FALSE)

\* The steps argument of run_simulation.
MaxSteps == 6

\* The worlds run: 3x3 grids with the dock at (0,0), free of obstacles, with
\* one obstacle, or with the dock walled in; dirt on free cells; a battery
\* that outlasts the run or one of two units.
RunWorlds ==
    {[w |-> 3, h |-> 3, obstacles |-> o, dirt |-> d, max_battery |-> b] :
        o \in {{}, {<<2, 0>>}, {<<1, 0>>, <<0, 1>>}},
        d \in {{<<1, 1>>}, {<<0, 0>>, <<1, 1>>}, {<<2, 2>>}},
        b \in {2, 200}}

\* Environment(w, h, obstacles, dirt), KnowledgeBaseAgent(env) and the
\* entry of run_simulation(env, agent, steps).
InitRun ==
    \E world \in RunWorlds :
        /\ env_w = world.w /\ env_h = world.h /\ env_obstacles = world.obstacles
        /\ env_dock = <<0, 0>> /\ env_max_battery = world.max_battery
        /\ env_pos = <<0, 0>> /\ env_dirt = world.dirt /\ env_init_dirt = world.dirt
        /\ env_battery = world.max_battery /\ env_time = 0 /\ env_cleaned = 0
        /\ env_action_blocked = FALSE
        /\ runState = "running" /\ runSteps = 0 /\ bumps = 0 /\ vacuums = 0
        /\ vfacts = {} /\ vw = world.w /\ vh = world.h
        /\ vCall = Call("new", NoPred, FALSE)
        /\ vAction = "" /\ vLastPos = NoPred /\ vPosTells = 0 /\ vCalls = 0
        /\ UnifyIdle /\ BfsIdle /\ GhostCIdle /\ GhostAIdle /\ GameIdle /\ GhostBIdle

\* One iteration of run_simulation's loop: env.sense(), agent.act(percept,
\* env), env.step(action), the bump count and the loop's exit test.
RunTick ==
    /\ runState = "running"
    /\ LET p == sense(env_pos, env_dirt)
           told == store_facts(vfacts, p, env_w, env_h, env_obstacles)
       IN  \E out \in VacAskOutcomes(told, vw, vh) :
             LET after == step(out.action)
             IN  /\ vfacts' = out.facts
                 /\ vAction' = out.action
                 /\ vLastPos' = Position(Const(p.pos[1]), Const(p.pos[2]))
                 /\ vPosTells' = vPosTells + 1
                 /\ vCall' = Call("act", NoPred, FALSE)
                 /\ env_pos' = after.pos /\ env_dirt' = after.dirt
                 /\ env_battery' = after.battery /\ env_time' = after.time
                 /\ env_cleaned' = after.cleaned
                 /\ env_action_blocked' = after.action_blocked
                 /\ bumps' = IF after.action_blocked THEN bumps + 1 ELSE bumps
                 /\ vacuums' = IF out.action = "VACUUM" THEN vacuums + 1 ELSE vacuums
                 /\ runSteps' = runSteps + 1
                 /\ runState' = IF after.dirt = {} \/ after.battery <= 0
                                   \/ runSteps + 1 = MaxSteps
                                THEN "done" ELSE "running"
    /\ UNCHANGED <<vw, vh, vCalls, env_w, env_h, env_obstacles, env_init_dirt, env_dock,
                   env_max_battery, exceptVE>>

\* SpecVacuumAgent: the knowledge base driven call by call, or the agent run
\* by run_simulation.
InitVacuumAgent == InitVacuum \/ InitRun

NextVacuumAgent ==
    \/ (runState = "none" /\ NextVacuum)
    \/ RunTick

SpecVacuumAgent == InitVacuumAgent /\ [][NextVacuumAgent]_vars

---------------------------------------------------------------------------
(* Properties of the vacuum agent's ask and act                            *)

\* The DirtAt facts of fs at the coordinates of a Position fact of fs.
DirtHere(fs) ==
    {d \in OfType(fs, "DirtAt") : \E p \in OfType(fs, "Position") : p.args = d.args}

\* A step that calls ask on the knowledge base directly.
VacAskStep ==
    (vCalls' # vCalls /\ vCall'.op = "ask") =>
        /\ (vAction' = "VACUUM") <=> (DirtHere(vfacts) # {})
        /\ vAction' = "VACUUM" => vfacts' = vfacts \ DirtHere(vfacts)
        /\ vAction' = "VACUUM" => Cardinality(DirtHere(vfacts)) = 1

\* A step that is one act of the agent followed by the environment's step.
VacActStep ==
    (runSteps' # runSteps) =>
        /\ (vAction' = "VACUUM") <=> (env_pos \in env_dirt)
        /\ vAction' = "VACUUM" =>
              vfacts' = store_facts(vfacts, sense(env_pos, env_dirt), env_w, env_h, env_obstacles)
                          \ {DirtAt(Const(env_pos[1]), Const(env_pos[2]))}

\* No DirtAt fact is in the store once act has returned.
NoDirtAfterAct == vCall.op = "act" => OfType(vfacts, "DirtAt") = {}

\* C14: ask returns VACUUM exactly when a DirtAt fact is stored at the
\* coordinates of the Position fact; it then removes that fact and no other;
\* and no DirtAt fact is left in the store after any act.
C14_VacuumFirst == [][VacAskStep /\ VacActStep]_vars /\ []NoDirtAfterAct

\* The agent has vacuumed a second cell, on its third tick or later.
C14_Witness ==
    /\ vCall.op = "act" /\ vAction = "VACUUM"
    /\ runSteps >= 3 /\ env_cleaned = 2

\* The scenario: a 3x3 grid without obstacles, dirt only at (1,1), the agent
\* starting at the dock (0,0) with a battery that outlasts the run.
InScenario ==
    /\ runState # "none"
    /\ env_w = 3 /\ env_h = 3 /\ env_obstacles = {}
    /\ env_init_dirt = {<<1, 1>>} /\ env_max_battery > MaxSteps

\* C15 as stated: in the scenario the dirt is gone after at most 4 ticks and
\* VACUUM is emitted exactly once, at the tick at which the Position fact is
\* (1,1).
C15_CleanWithinFourTicks ==
    InScenario =>
        /\ env_time >= 4 => (env_dirt = {} /\ vacuums = 1)
        /\ vAction = "VACUUM" => Position(Const(1), Const(1)) \in vfacts

\* C15, amended: in the scenario VACUUM is emitted at most once, exactly at
\* the first tick at which the Position fact is (1,1), and that tick removes
\* the dirt; it is the third tick at the earliest, and no number of ticks
\* bounds it from above, the moves being random.
C15_CleanOnArrival ==
    InScenario =>
        /\ vacuums <= 1
        /\ (vacuums = 1) <=> (env_dirt = {})
        /\ (vCall.op = "act" /\ Position(Const(1), Const(1)) \in vfacts) <=> (vAction = "VACUUM")
        /\ vAction = "VACUUM" => (env_dirt = {} /\ runState = "done")
        /\ env_time < 3 => env_dirt # {}

\* The dirt is vacuumed on the fifth tick or later.
C15_Witness ==
    /\ InScenario /\ vAction = "VACUUM" /\ env_time >= 5

\* The cell a move action leads to from pos.
VacDest(pos, d) == <<pos[1] + VacMoves(d)[1], pos[2] + VacMoves(d)[2]>>

\* The cells the Blocked facts of fs denote.
BlockedCells(fs) == {<<f.args[1].i, f.args[2].i>> : f \in OfType(fs, "Blocked")}

\* One act of a run and the environment's step that follows it.
NoBumpStep ==
    (runSteps' # runSteps) =>
        /\ vAction' \in VacDirs =>
              /\ in_bounds(VacDest(env_pos, vAction'), env_w, env_h)
              /\ VacDest(env_pos, vAction') \notin BlockedCells(vfacts')
              /\ env_pos' = VacDest(env_pos, vAction')
        /\ \A c \in BlockedCells(vfacts') : blocked(c, env_w, env_h, env_obstacles)
        /\ ~env_action_blocked'
        /\ vAction' = "WAIT" =>
              \A d \in VacDirs : blocked(VacDest(env_pos, d), env_w, env_h, env_obstacles)

\* C39: in every run each move action emitted by act leads to an in-bounds
\* cell for which the store holds no Blocked fact, every Blocked fact in the
\* store denotes a cell the environment blocks, step never sets
\* action_blocked, and WAIT is emitted only when all four neighbours are out
\* of bounds or blocked.
C39_NeverBumps ==
    [][NoBumpStep]_vars /\ [](runState # "none" => (bumps = 0 /\ ~env_action_blocked))

\* The agent has moved away from a cell next to the obstacle at (2,0), whose
\* Blocked fact is in the store.
C39_Witness ==
    /\ runState # "none" /\ vAction \in VacDirs /\ runSteps >= 2
    /\ <<2, 0>> \in env_obstacles
    /\ Blocked(Const(2), Const(0)) \in vfacts
    /\ env_pos \notin {<<1, 0>>, <<2, 0>>}

---------------------------------------------------------------------------
(* KnowledgeBaseC.ask and its queries (ghost_c_kb.py, path_utils.py)       *)

\* Manhattan distance.
ManhattanDist(a, b) == Abs(a[1] - b[1]) + Abs(a[2] - b[2])

\* The coordinate bound to X and Y by a substitution.
CoordOf(r) == <<r["X"].i, r["Y"].i>>

\* _query_all_safe_coords
query_all_safe_coords(fs) ==
    {CoordOf(r) : r \in get_unifications(fs, LearnedSafe(Var("X"), Var("Y")))}

\* _is_unreachable_goal
is_unreachable_goal(fs, g) ==
    get_unifications(fs, UnreachableGoal(Const(g[1]), Const(g[2]), Var("T"))) # {}

\* _is_position_safe
is_position_safe(fs, pos) == query_exists(fs, LearnedSafe(Const(pos[1]), Const(pos[2])))

\* _is_path_obstructed
is_path_obstructed(fs, pos, path) ==
    IF path = <<>> THEN TRUE
    ELSE IF Len(path) = 1 THEN path[1] # pos
    ELSE \E i \in DOMAIN path : ~is_position_safe(fs, path[i])

\* _compute_frontier
compute_frontier(fs) ==
    {n \in UNION {Range(get_neighbors(c)) : c \in query_all_safe_coords(fs)} :
        /\ ~query_exists(fs, LearnedSafe(Const(n[1]), Const(n[2])))
        /\ ~query_exists(fs, LearnedWall(Const(n[1]), Const(n[2])))}

\* The for loop of find_nearest_coord over get_neighbors(current_pos), from
\* neighbour i.
RECURSIVE NearestScan(_, _, _, _, _, _)
NearestScan(pos, i, queue, visited, target_coords, safe_tiles) ==
    IF i > 4
    THEN [found |-> FALSE, coord |-> None, queue |-> queue, visited |-> visited]
    ELSE LET neighbor == get_neighbors(pos)[i]
         IN  IF neighbor \in target_coords
             THEN [found |-> TRUE, coord |-> neighbor, queue |-> queue, visited |-> visited]
             ELSE IF neighbor \in safe_tiles /\ neighbor \notin visited
             THEN NearestScan(pos, i + 1, Append(queue, neighbor), visited \cup {neighbor},
                              target_coords, safe_tiles)
             ELSE NearestScan(pos, i + 1, queue, visited, target_coords, safe_tiles)

\* The while loop of find_nearest_coord.
RECURSIVE NearestLoop(_, _, _, _)
NearestLoop(queue, visited, target_coords, safe_tiles) ==
    IF queue = <<>> THEN None
    ELSE LET scan == NearestScan(Head(queue), 1, Tail(queue), visited, target_coords, safe_tiles)
         IN  IF scan.found THEN scan.coord
             ELSE NearestLoop(scan.queue, scan.visited, target_coords, safe_tiles)

\* find_nearest_coord (path_utils.py)
find_nearest_coord(start_pos, target_coords, safe_tiles) ==
    IF start_pos \in target_coords THEN start_pos
    ELSE IF target_coords = {} \/ safe_tiles = {} THEN None
    ELSE NearestLoop(<<start_pos>>, {start_pos}, target_coords, safe_tiles)

\* The first neighbour of tile, in the order of get_neighbors, that is in
\* safe_coords, or None.
first_safe_neighbor(tile, safe_coords) ==
    LET ok == {i \in 1..4 : get_neighbors(tile)[i] \in safe_coords}
    IN  IF ok = {} THEN None
        ELSE get_neighbors(tile)[CHOOSE i \in ok : \A j \in ok : i <= j]

\* _find_nearest_safe_to_target
find_nearest_safe_to_target(fs, target) ==
    IF query_all_safe_coords(fs) = {} THEN None
    ELSE find_nearest_coord(target, query_all_safe_coords(fs), query_all_safe_coords(fs))

\* _find_nearest_frontier_goal
find_nearest_frontier_goal(fs, pos) ==
    LET frontier == {f \in compute_frontier(fs) : ~is_unreachable_goal(fs, f)}
        safe_coords == query_all_safe_coords(fs)
        nearest_frontier == find_nearest_coord(pos, frontier, safe_coords)
    IN  IF frontier = {} THEN None
        ELSE IF nearest_frontier = None THEN None
        ELSE IF ManhattanDist(pos, nearest_frontier) = 1 THEN nearest_frontier
        ELSE first_safe_neighbor(nearest_frontier, safe_coords)

\* _find_vector_aligned_frontier: the values it can return. Its for loop
\* returns during its first iteration, so the result comes from whichever
\* frontier tile the set hands out first.
find_vector_aligned_frontier(fs, pos, vector) ==
    IF compute_frontier(fs) = {} THEN {None}
    ELSE {IF (f[1] - pos[1]) * vector[1] + (f[2] - pos[2]) * vector[2] <= 0 THEN None
          ELSE IF ManhattanDist(pos, f) = 1 THEN f
          ELSE first_safe_neighbor(f, query_all_safe_coords(fs)) :
             f \in compute_frontier(fs)}

\* _find_spread_goal: the values it can return.
find_spread_goal(fs, pos) ==
    LET far == {t \in query_all_safe_coords(fs) : ManhattanDist(t, pos) > 10}
    IN  IF far = {} THEN {None} ELSE far

\* _find_farthest_safe_tile: the values it can return (any tile at the
\* maximum distance, by the order of the set).
find_farthest_safe_tile(fs, pos) ==
    LET safe_tiles == query_all_safe_coords(fs)
    IN  IF safe_tiles = {} THEN {None}
        ELSE {t \in safe_tiles :
                \A u \in safe_tiles : ManhattanDist(u, pos) <= ManhattanDist(t, pos)}

\* _infer_oscillation
infer_oscillation(fs, pos, now) ==
    /\ query_exists(fs, VisitedAtTime(Const(pos[1]), Const(pos[2]), Const(now - 2)))
    /\ query_exists(fs, VisitedAtTime(Const(pos[1]), Const(pos[2]), Const(now - 4)))

\* _query_active_escape without the test of the age.
query_active_escape_unaged(fs, now, duration) ==
    LET results == get_unifications(fs, EscapeState(Var("X"), Var("Y"), Var("T")))
    IN  IF results = {} THEN {[facts |-> fs, target |-> None]}
        ELSE {[facts |-> fs, target |-> CoordOf(res)] : res \in results}

\* _query_active_escape: the outcomes it can produce, the store it leaves and
\* the target it returns (results[0] is whichever EscapeState comes first).
query_active_escape(fs, now, duration) ==
    LET results == get_unifications(fs, EscapeState(Var("X"), Var("Y"), Var("T")))
    IN  IF results = {} THEN {[facts |-> fs, target |-> None]}
        ELSE {IF now - res["T"].i > duration
              THEN [facts |-> retract(fs, EscapeState(Var("X"), Var("Y"), Var("T"))),
                    target |-> None]
              ELSE [facts |-> fs, target |-> CoordOf(res)] : res \in results}

\* _retract_escape_state
retract_escape_state(fs) == retract(fs, EscapeState(Var("X"), Var("Y"), Var("T")))

\* _query_nearby_ghosts: the bindings of the GhostPos facts of other ghosts
\* closer than repulsion_distance.
query_nearby_ghosts(fs, pos, repulsion_distance) ==
    {r \in get_unifications(fs, GhostPos(Var("ID"), Var("X"), Var("Y"))) :
        /\ r["ID"] # ConstS("C")
        /\ ManhattanDist(pos, CoordOf(r)) < repulsion_distance}

\* The sum of coordinate k over a set of bindings.
RECURSIVE SumCoords(_, _)
SumCoords(rs, k) ==
    IF rs = {} THEN 0
    ELSE LET r == CHOOSE x \in rs : TRUE
         IN  CoordOf(r)[k] + SumCoords(rs \ {r}, k)

\* The largest of three integers.
Max3(a, b, c) == IF a >= b /\ a >= c THEN a ELSE IF b >= c THEN b ELSE c

\* _infer_repulsion_goal: the values it can return. With n threats, the
\* escape vector and its magnitude are kept multiplied by n, and a score by
\* the magnitude, so that the comparison of scores stays in the integers.
infer_repulsion_goal(fs, pos, threatening_ghosts) ==
    LET n == Cardinality(threatening_ghosts)
        escape_dx == n * pos[1] - SumCoords(threatening_ghosts, 1)
        escape_dy == n * pos[2] - SumCoords(threatening_ghosts, 2)
        escape_magnitude == Max3(Abs(escape_dx), Abs(escape_dy), n)
        candidates == {t \in query_all_safe_coords(fs) :
                         ManhattanDist(t, pos) <= 6 /\ ManhattanDist(t, pos) # 0}
        min_threat_dist(t) ==
            CHOOSE d \in {ManhattanDist(t, CoordOf(g)) : g \in threatening_ghosts} :
                \A g \in threatening_ghosts : d <= ManhattanDist(t, CoordOf(g))
        score(t) == ((t[1] - pos[1]) * escape_dx + (t[2] - pos[2]) * escape_dy) * 3
                      + min_threat_dist(t) * escape_magnitude
    IN  IF candidates = {} THEN {pos}
        ELSE {t \in candidates : \A u \in candidates : score(u) <= score(t)}

\* _query_pacman_state: the values it can return, None or <<px, py, vx, vy>>.
query_pacman_state(fs) ==
    LET pacman_positions == get_unifications(fs, PacmanPos(Var("X"), Var("Y")))
        vector_results == get_unifications(fs, PacmanVector(Var("DX"), Var("DY")))
    IN  IF pacman_positions = {} THEN {None}
        ELSE IF vector_results = {}
        THEN {<<p["X"].i, p["Y"].i, 0, 0>> : p \in pacman_positions}
        ELSE {<<p["X"].i, p["Y"].i, v["DX"].i, v["DY"].i>> :
                 p \in pacman_positions, v \in vector_results}

\* _query_vector: the values it can return.
query_vector(fs) ==
    LET vector_results == get_unifications(fs, PacmanVector(Var("DX"), Var("DY")))
    IN  IF vector_results = {} THEN {None}
        ELSE {<<v["DX"].i, v["DY"].i>> : v \in vector_results}

\* _get_safe_fallback_move: the moves it can return.
get_safe_fallback_move_anywhere(fs, pos) == Range(CardinalMoves)

\* A fallback that takes every neighbour without a LearnedWall fact.
get_safe_fallback_move_unwalled(fs, pos) ==
    LET open_moves == {m \in Range(CardinalMoves) :
                          ~query_exists(fs, LearnedWall(Const(MoveFrom(pos, m)[1]),
                                                        Const(MoveFrom(pos, m)[2])))}
    IN  IF open_moves = {} THEN {"WAIT"} ELSE open_moves

get_safe_fallback_move(fs, pos) ==
    LET safe_moves == {m \in Range(CardinalMoves) : is_position_safe(fs, MoveFrom(pos, m))}
    IN  IF safe_moves = {} THEN {"WAIT"} ELSE safe_moves

\* get_move_from_path (path_utils.py)
get_move_from_path(current_pos, path) ==
    IF Len(path) < 2 THEN "WAIT"
    ELSE LET d == <<path[2][1] - current_pos[1], path[2][2] - current_pos[2]>>
             ms == {m \in DOMAIN MOVES : MOVES[m] = d}
         IN  IF ms = {} THEN "WAIT" ELSE CHOOSE m \in ms : TRUE

\* The goal as ask's rules leave it, rule by rule. Each operator takes the
\* goal new_goal chosen so far (None if none) and gives the values the rule
\* can leave in it.

\* Priority 1, repulsion: runs whether or not a goal is already chosen.
rule_repulsion(fs, pos, new_goal) ==
    IF query_nearby_ghosts(fs, pos, 5) # {}
    THEN infer_repulsion_goal(fs, pos, query_nearby_ghosts(fs, pos, 5))
    ELSE {new_goal}

\* Priority 2, close chase.
rule_chase(fs, pos, new_goal) ==
    IF new_goal # None THEN {new_goal}
    ELSE {IF info # None
             /\ ManhattanDist(pos, <<info[1], info[2]>>) <= 2
             /\ ~is_unreachable_goal(fs, <<info[1], info[2]>>)
          THEN <<info[1], info[2]>> ELSE None : info \in query_pacman_state(fs)}

\* Priority 3, intercept two steps ahead of Pac-Man.
rule_intercept(fs, pos, new_goal) ==
    IF new_goal # None THEN {new_goal}
    ELSE {IF info # None
             /\ 3 <= ManhattanDist(pos, <<info[1], info[2]>>)
             /\ ManhattanDist(pos, <<info[1], info[2]>>) <= 4
          THEN LET intercept_goal ==
                     find_nearest_safe_to_target(
                        fs, <<info[1] + info[3] * 2, info[2] + info[4] * 2>>)
               IN  IF intercept_goal # None /\ ~is_unreachable_goal(fs, intercept_goal)
                   THEN intercept_goal ELSE None
          ELSE None : info \in query_pacman_state(fs)}

\* Priority 4, vector-aligned exploration.
rule_vector(fs, pos, new_goal) ==
    IF new_goal # None THEN {new_goal}
    ELSE UNION {IF vector_info # None /\ vector_info # <<0, 0>>
                THEN {IF aligned_goal # None /\ ~is_unreachable_goal(fs, aligned_goal)
                      THEN aligned_goal ELSE None :
                         aligned_goal \in find_vector_aligned_frontier(fs, pos, vector_info)}
                ELSE {None} : vector_info \in query_vector(fs)}

\* Priority 5, frontier exploration.
rule_frontier(fs, pos, new_goal) ==
    IF new_goal # None THEN {new_goal}
    ELSE LET frontier_goal == find_nearest_frontier_goal(fs, pos)
         IN  {IF frontier_goal # None /\ ~is_unreachable_goal(fs, frontier_goal)
              THEN frontier_goal ELSE None}

\* Priority 6, spread.
rule_spread(fs, pos, new_goal) ==
    IF new_goal # None THEN {new_goal}
    ELSE {IF spread_goal # None /\ ~is_unreachable_goal(fs, spread_goal)
          THEN spread_goal ELSE None : spread_goal \in find_spread_goal(fs, pos)}

\* Priorities 1 to 6 in turn.
select_goal(fs, pos, new_goal) ==
    UNION {UNION {UNION {UNION {UNION {rule_spread(fs, pos, g5) :
        g5 \in rule_frontier(fs, pos, g4)} :
        g4 \in rule_vector(fs, pos, g3)} :
        g3 \in rule_intercept(fs, pos, g2)} :
        g2 \in rule_chase(fs, pos, g1)} :
        g1 \in rule_repulsion(fs, pos, new_goal)}

\* What ask leaves behind: the store, the goal, the path and the move.
AskResult(fs, g, path, move, plan) ==
    [facts |-> fs, goal |-> g, current_path |-> path, move |-> move, plan |-> plan]

\* The UnreachableGoal fact ask asserts for the goal g at time now.
mark_unreachable_skipped(fs, g, now) == fs
mark_unreachable(fs, g, now) ==
    assert_fact(fs, UnreachableGoal(Const(g[1]), Const(g[2]), Const(now)))

\* PATHFINDING: the store, goal and path after the replanning block, for the
\* goal new_goal (not None) the rules chose.
plan_path(fs, pos, now, old_goal, old_path, new_goal) ==
    IF ~(new_goal # old_goal \/ is_path_obstructed(fs, pos, old_path))
    THEN {[facts |-> fs, goal |-> old_goal, current_path |-> old_path,
           plan |-> PlanInfo(new_goal, FALSE, FALSE)]}
    ELSE LET safe_coords == query_all_safe_coords(fs) \cup {new_goal}
             new_path == bfs_pathfinder(pos, new_goal, safe_coords)
         IN  IF new_path = NoPath
             THEN LET marked == mark_unreachable(fs, new_goal, now)
                      frontier_goal == find_nearest_frontier_goal(marked, pos)
                      fallbacks == IF frontier_goal # None THEN {frontier_goal}
                                   ELSE find_spread_goal(marked, pos)
                  IN  {IF fallback # None
                       THEN [facts |-> marked, goal |-> fallback,
                             current_path |-> bfs_pathfinder(pos, fallback, safe_coords),
                             plan |-> PlanInfo(new_goal, TRUE, TRUE)]
                       ELSE [facts |-> marked, goal |-> new_goal, current_path |-> <<>>,
                             plan |-> PlanInfo(new_goal, TRUE, TRUE)] :
                          fallback \in fallbacks}
             ELSE IF Len(new_path) = 1 /\ new_path[1] # pos
             THEN {[facts |-> mark_unreachable(fs, new_goal, now), goal |-> new_goal,
                    current_path |-> new_path, plan |-> PlanInfo(new_goal, TRUE, FALSE)]}
             ELSE {[facts |-> fs, goal |-> new_goal, current_path |-> new_path,
                    plan |-> PlanInfo(new_goal, TRUE, FALSE)]}

\* EXECUTE NEXT MOVE: the results of ask for the store, goal and path the
\* replanning block left.
\* The branch of ask taken when my_pos is not in current_path: the path and
\* the goal are dropped and the fallback move is returned.
path_kept(fs, pos, g, path, plan) ==
    {AskResult(fs, g, path, m, plan) : m \in get_safe_fallback_move(fs, pos)}
path_invalid(fs, pos, g, path, plan) ==
    {AskResult(fs, None, <<>>, m, [plan EXCEPT !.path_invalid = TRUE]) :
        m \in get_safe_fallback_move(fs, pos)}

execute_move(fs, pos, g, path, plan) ==
    LET fallback == {AskResult(fs, None, <<>>, m, plan) : m \in get_safe_fallback_move(fs, pos)}
    IN  IF path = <<>>
        THEN {AskResult(fs, g, path, m, plan) : m \in get_safe_fallback_move(fs, pos)}
        ELSE IF pos \notin Range(path) THEN path_invalid(fs, pos, g, path, plan)
        ELSE LET idx == CHOOSE i \in DOMAIN path : path[i] = pos /\ \A j \in 1..(i - 1) : path[j] # pos
             IN  IF idx + 1 <= Len(path)
                 THEN LET next_pos == path[idx + 1]
                      IN  IF is_position_safe(fs, next_pos) \/ next_pos = g
                          THEN IF ManhattanDist(next_pos, pos) = 1
                               THEN {AskResult(fs, g, path,
                                               get_move_from_path(pos, <<pos, next_pos>>),
                                               plan)}
                               ELSE fallback
                          ELSE fallback
                 ELSE fallback

\* PRIORITY 0 and 0.5: for one outcome esc of _query_active_escape, the store
\* and the goal chosen so far; early is TRUE when ask returns the fallback
\* move at once because an oscillation is found and no tile is known safe.
escape_stage(esc, pos, now) ==
    LET fs1 == IF esc.target # None /\ esc.target = pos
               THEN retract_escape_state(esc.facts) ELSE esc.facts
        g1 == IF esc.target # None /\ esc.target # pos THEN esc.target ELSE None
    IN  IF g1 = None /\ infer_oscillation(fs1, pos, now)
        THEN {IF far_goal # None
              THEN [facts |-> assert_fact(fs1, EscapeState(Const(far_goal[1]), Const(far_goal[2]),
                                                           Const(now))),
                    new_goal |-> far_goal, early |-> FALSE]
              ELSE [facts |-> fs1, new_goal |-> None, early |-> TRUE] :
                 far_goal \in find_farthest_safe_tile(fs1, pos)}
        ELSE {[facts |-> fs1, new_goal |-> g1, early |-> FALSE]}

\* KnowledgeBaseC.ask: every result it can produce from the store fs at pos
\* and time now with the goal and path kept from earlier calls.
ask_results(fs, pos, now, old_goal, old_path) ==
    UNION {UNION {
        IF st.early
        THEN {AskResult(st.facts, old_goal, old_path, m, PlanInfo(None, FALSE, FALSE)) :
                 m \in get_safe_fallback_move(st.facts, pos)}
        ELSE UNION {
            IF new_goal # None
            THEN UNION {execute_move(pl.facts, pos, pl.goal, pl.current_path, pl.plan) :
                          pl \in plan_path(st.facts, pos, now, old_goal, old_path, new_goal)}
            ELSE execute_move(st.facts, pos, old_goal, old_path, PlanInfo(None, FALSE, FALSE)) :
              new_goal \in select_goal(st.facts, pos, st.new_goal)} :
        st \in escape_stage(esc, pos, now)} :
        esc \in query_active_escape(fs, now, 20)}

\* KnowledgeBaseC.ask()
Ask ==
    /\ cCall.op = "tell"
    /\ \E r \in ask_results(facts, my_pos, current_time, goal, current_path) :
          /\ facts' = r.facts
          /\ goal' = r.goal
          /\ current_path' = r.current_path
          /\ cMove' = r.move
          /\ cPlan' = r.plan
    /\ cCall' = Call("ask", NoPred, FALSE)
    /\ UNCHANGED <<my_pos, last_pacman_pos, last_pacman_vector, current_time, cArgs,
                   cCalls, exceptC>>

---------------------------------------------------------------------------
(* SpecGhostCTick: Ghost.get_next_move on Ghost C, tell then ask, for a    *)
(* ghost in the corridor y = 0 that sees Pac-Man and ghost A come and go.  *)

\* The x coordinate at which Pac-Man is seen and which the percepts uncover.
Reach == 2

\* The number of ticks followed.
MaxTicks == 5

TickTell ==
    /\ cCall.op # "tell"
    /\ current_time < MaxTicks
    /\ \E pos \in {<<0, 0>>, <<1, 0>>}, pacman_pos \in {None, <<Reach, 0>>},
          other_ghost_pos \in {<<>>, << <<"A", <<1, 0>>>> >>},
          percepts \in {<<>>, <<Reach, 0>> :> "EMPTY", <<1, 0>> :> "WALL"} :
            Tell(pos, pacman_pos, other_ghost_pos, percepts)

NextGhostCTick == TickTell \/ Ask

SpecGhostCTick == InitGhostC /\ [][NextGhostCTick]_vars

---------------------------------------------------------------------------
(* SpecGhostCStuck: the same tell/ask ticks for a ghost that stays on      *)
(* (0,0), followed long enough for the history windows to slide.           *)

\* The number of ticks followed.
MaxStuckTicks == 13

StuckTell ==
    /\ cCall.op # "tell"
    /\ current_time < MaxStuckTicks
    /\ \E pacman_pos \in {None, <<Reach, 0>>},
          other_ghost_pos \in {<<>>, << <<"A", <<1, 0>>>> >>},
          percepts \in {<<>>, <<1, 0>> :> "EMPTY", <<Reach, 0>> :> "EMPTY"} :
            Tell(<<0, 0>>, pacman_pos, other_ghost_pos, percepts)

NextGhostCStuck == StuckTell \/ Ask

SpecGhostCStuck == InitGhostC /\ [][NextGhostCStuck]_vars

---------------------------------------------------------------------------
(* Properties of the unreachable-goal markers and the history window       *)

IsAsk == cCall.op = "tell" /\ cCall'.op = "ask"
IsTell == cCall'.op = "tell"

\* The UnreachableGoal fact for the coordinate g stamped with time t.
UnreachableAt(g, t) == UnreachableGoal(Const(g[1]), Const(g[2]), Const(t))

\* An ask whose pathfinder finds no path for the goal its rules chose leaves
\* that goal marked at the current time and returns a move.
MarksFailedGoal ==
    (IsAsk /\ cPlan'.no_path) =>
        /\ UnreachableAt(cPlan'.new_goal, current_time) \in facts'
        /\ cMove' \in DOMAIN MOVES

\* An UnreachableGoal fact leaves the store at, and only at, a tell at which
\* its age exceeds 7.
KeepsMarkerUntilAged ==
    \A f \in OfType(facts, "UnreachableGoal") :
        (f \notin facts') <=> (IsTell /\ current_time' - f.args[3].i > 7)

\* C18: when the BFS run by ask for the newly chosen goal g finds no path,
\* UnreachableGoal(g.x, g.y, current_time) is in the store when ask returns,
\* ask returns one of UP/DOWN/LEFT/RIGHT/WAIT, and the fact stays in the store
\* until a tell at which its age exceeds 7.
C18_UnreachableRecorded == [][MarksFailedGoal /\ KeepsMarkerUntilAged]_vars

\* An ask whose pathfinder has just failed, with a marker of age 7 still in
\* the store beside the new one.
C18_Witness ==
    /\ cCall.op = "ask" /\ cPlan.no_path
    /\ UnreachableAt(cPlan.new_goal, current_time) \in facts
    /\ \E f \in OfType(facts, "UnreachableGoal") : current_time - f.args[3].i = 7

\* C19: after every tell at time t every VisitedAtTime fact has a timestamp
\* in [t-10, t], at most 11 of them exist, one per tick, and every
\* UnreachableGoal fact has a timestamp of at least t-7.
C19_BoundedTimestamps ==
    cCall.op = "tell" =>
        /\ \A f \in OfType(facts, "VisitedAtTime") :
                current_time - 10 <= f.args[3].i /\ f.args[3].i <= current_time
        /\ \A f \in OfType(facts, "VisitedAtTime"), g \in OfType(facts, "VisitedAtTime") :
                f.args[3] = g.args[3] => f = g
        /\ Cardinality(OfType(facts, "VisitedAtTime")) <= 11
        /\ \A f \in OfType(facts, "UnreachableGoal") : f.args[3].i >= current_time - 7

\* A tell late enough for the history window to be full and to have dropped
\* its oldest entry, with an unreachable-goal marker of the greatest age kept.
C19_Witness ==
    /\ cCall.op = "tell" /\ current_time >= 12
    /\ Cardinality(OfType(facts, "VisitedAtTime")) = 11
    /\ \E f \in OfType(facts, "UnreachableGoal") : current_time - f.args[3].i = 7

---------------------------------------------------------------------------
(* Properties of the goal ask selects                                      *)

\* The LearnedSafe tiles of the store fs farthest from pos.
FarthestSafe(fs, pos) ==
    {t \in query_all_safe_coords(fs) :
        \A u \in query_all_safe_coords(fs) : ManhattanDist(u, pos) <= ManhattanDist(t, pos)}

\* The store shows the present position occupied two and four ticks ago, and
\* holds no escape commitment.
OscillatingFree ==
    /\ VisitedAtTime(Const(my_pos[1]), Const(my_pos[2]), Const(current_time - 2)) \in facts
    /\ VisitedAtTime(Const(my_pos[1]), Const(my_pos[2]), Const(current_time - 4)) \in facts
    /\ OfType(facts, "EscapeState") = {}

EscapesOscillation ==
    (IsAsk /\ OscillatingFree) =>
        \E tile \in FarthestSafe(facts, my_pos) :
            /\ EscapeState(Const(tile[1]), Const(tile[2]), Const(current_time)) \in facts'
            /\ cPlan'.new_goal = tile

\* C16: on a tick t at which the VisitedAtTime facts show the current position
\* occupied at t-2 and t-4 and no escape commitment is active, ask asserts an
\* EscapeState fact stamped t whose target is a LearnedSafe tile farthest from
\* the current position, and the goal selected on that tick is that tile.
C16_OscillationEscape == [][EscapesOscillation]_vars

\* The store fs holds an UnreachableGoal fact for the coordinate g.
MarkedUnreachable(fs, g) ==
    \E f \in OfType(fs, "UnreachableGoal") : f.args[1].i = g[1] /\ f.args[2].i = g[2]

\* An ask that sets the goal sets it to a coordinate not marked in the store
\* it started from, and a fallback goal taken after a failed search is not
\* marked in the store the search left.
AvoidsMarkedGoals ==
    IsAsk =>
        /\ (cPlan'.replanned /\ cPlan'.new_goal # None)
              => ~MarkedUnreachable(facts, cPlan'.new_goal)
        /\ (cPlan'.no_path /\ goal' # None /\ goal' # cPlan'.new_goal)
              => ~MarkedUnreachable(facts', goal')

\* C17: ask never sets its goal to a coordinate for which an UnreachableGoal
\* fact is in the store at the moment the goal is chosen, whichever rule
\* proposes it.
C17_UnreachableExcluded == [][AvoidsMarkedGoals]_vars

---------------------------------------------------------------------------
(* Environment (environment.py) and run_game (pacman.py): the game loop.   *)
(* The three knowledge bases are left open: a ghost's get_next_move is a   *)
(* tell followed by an ask that answers with any key of MOVES.             *)

\* The maze, row by row from y = 0; "#" is a wall.
MazeRows ==
    << <<"#", "#", "#", "#", "#">>,
       <<"#", " ", " ", " ", "#">>,
       <<"#", " ", " ", " ", "#">>,
       <<"#", "#", "#", "#", "#">> >>
pm_w == Len(MazeRows[1])
pm_h == Len(MazeRows)
pm_walls == {c \in (0..(pm_w - 1)) \X (0..(pm_h - 1)) : MazeRows[c[2] + 1][c[1] + 1] = "#"}

GhostIds == {"A", "B", "C"}

\* Environment.in_bounds, ghost_blocked and pacman_blocked
pm_in_bounds(c) == 0 <= c[1] /\ c[1] < pm_w /\ 0 <= c[2] /\ c[2] < pm_h
ghost_blocked(c) == ~pm_in_bounds(c) \/ c \in pm_walls
pacman_blocked(c) == ~pm_in_bounds(c) \/ c \in pm_walls

\* get_ghost_percepts: the directions looked along, the i-th cell of a ray
\* and the number of cells seen on it (the first wall ends the ray).
Directions == << <<0, -1>>, <<0, 1>>, <<-1, 0>>, <<1, 0>> >>
RayCell(p, d, i) == <<p[1] + d[1] * i, p[2] + d[2] * i>>
RayLen(p, d) ==
    IF \E i \in 1..4 : RayCell(p, d, i) \in pm_walls
    THEN CHOOSE i \in 1..4 : /\ RayCell(p, d, i) \in pm_walls
                             /\ \A j \in 1..(i - 1) : RayCell(p, d, j) \notin pm_walls
    ELSE 4

\* The label get_ghost_percepts gives the cell pos.
CellLabel(pos, ghost_id, pacman, ghosts, pellets) ==
    IF pos \in pm_walls THEN "WALL"
    ELSE IF pos = pacman THEN "PACMAN"
    ELSE IF \E g \in GhostIds : g # ghost_id /\ pos = ghosts[g] THEN "GHOST"
    ELSE IF pos \in pellets THEN "PELLET"
    ELSE "EMPTY"

\* The entry get_ghost_percepts appends to other_ghosts_seen for the cell pos.
GhostSeenAt(pos, ghost_id, pacman, ghosts) ==
    IF pos \in pm_walls \/ pos = pacman THEN <<>>
    ELSE IF pos = ghosts["A"] /\ ghost_id # "A" THEN << <<"A", pos>> >>
    ELSE IF pos = ghosts["B"] /\ ghost_id # "B" THEN << <<"B", pos>> >>
    ELSE IF pos = ghosts["C"] /\ ghost_id # "C" THEN << <<"C", pos>> >>
    ELSE <<>>

\* other_ghosts_seen from cell i of direction k on.
RECURSIVE RayGhosts(_, _, _, _, _)
RayGhosts(k, i, ghost_id, pacman, ghosts) ==
    IF k > Len(Directions) THEN <<>>
    ELSE IF i > RayLen(ghosts[ghost_id], Directions[k])
    THEN RayGhosts(k + 1, 1, ghost_id, pacman, ghosts)
    ELSE GhostSeenAt(RayCell(ghosts[ghost_id], Directions[k], i), ghost_id, pacman, ghosts)
            \o RayGhosts(k, i + 1, ghost_id, pacman, ghosts)

\* Environment.get_ghost_percepts(ghost_id) in the world given.
get_ghost_percepts(ghost_id, pacman, ghosts, pellets) ==
    LET ghost_pos == ghosts[ghost_id]
        cells == {RayCell(ghost_pos, Directions[k], i) :
                    k \in {n \in DOMAIN Directions : TRUE},
                    i \in 1..4} \cap
                 UNION {{RayCell(ghost_pos, Directions[k], i) :
                           i \in 1..RayLen(ghost_pos, Directions[k])} : k \in DOMAIN Directions}
    IN  TellArgs(IF pacman \in cells /\ pacman \notin pm_walls THEN pacman ELSE None,
                 RayGhosts(1, 1, ghost_id, pacman, ghosts),
                 [c \in cells |-> CellLabel(c, ghost_id, pacman, ghosts, pellets)])

\* Environment.check_collision: lives and game_over after it.
check_collision(pacman, ghosts, lives, game_over) ==
    IF \E g \in GhostIds : pacman = ghosts[g]
    THEN [lives |-> lives - 1, game_over |-> (lives - 1 = -1) \/ game_over]
    ELSE [lives |-> lives, game_over |-> game_over]

\* Environment.move_ghost: the ghost positions after the move.
move_ghost(ghosts, ghost_id, action) ==
    IF action \in DOMAIN MOVES /\ ~ghost_blocked(MoveFrom(ghosts[ghost_id], action))
    THEN [ghosts EXCEPT ![ghost_id] = MoveFrom(ghosts[ghost_id], action)]
    ELSE ghosts

\* Environment.respawn_ghosts: the corners sorted by distance from Pac-Man,
\* farthest first (a stable sort), the first three dealt to the ghosts in any
\* order.
respawn_ghosts(pacman) ==
    LET corners == << <<1, 1>>, <<pm_w - 2, 1>>, <<1, pm_h - 2>>, <<pm_w - 2, pm_h - 2>> >>
        dist(i) == ManhattanDist(corners[i], pacman)
        last == CHOOSE i \in DOMAIN corners :
                    \A j \in DOMAIN corners :
                        j # i => (dist(j) > dist(i) \/ (dist(j) = dist(i) /\ j < i))
        top_three == DOMAIN corners \ {last}
    IN  {[g \in GhostIds |-> corners[f[g]]] :
            f \in {h \in [GhostIds -> top_three] : \A a, b \in GhostIds : a # b => h[a] # h[b]}}

\* The test run_game makes after each move.
life_lost_ignored(lives, before) == FALSE
life_lost(lives, before) == lives < before

\* The state before run_game: the maze of generate_maze with Pac-Man and the
\* ghosts on their corners, a pellet laid, two lives.
InitGame ==
    /\ pm_pellets = {<<2, 1>>}
    /\ pm_pacman_pos = <<1, 1>>
    /\ pm_ghost_pos = [g \in GhostIds |->
                          IF g = "A" THEN <<pm_w - 2, 1>>
                          ELSE IF g = "B" THEN <<pm_w - 2, pm_h - 2>>
                          ELSE <<1, pm_h - 2>>]
    /\ pm_iterations = 0 /\ pm_victory = FALSE /\ pm_game_over = FALSE
    /\ pm_score = 0 /\ pm_lives = 2
    /\ pacman_action = "WAIT" /\ current_lives = 2
    /\ gamePc = "loop" /\ tickLog = <<>>
    /\ tickStart = pm_ghost_pos
    /\ lastPercepts = [g \in GhostIds |-> TellArgs(None, <<>>, <<>>)]
    /\ UnifyIdle /\ BfsIdle /\ VacuumIdle /\ GhostCIdle /\ GhostAIdle /\ GhostBIdle

\* The number of ticks followed.
MaxIterations == 2

\* get_pressed_key's None.
NoKey == ""

\* Where run_game goes after a move that left lives lives and game_over.
AfterMove(lives, before, game_over, pacman, ghosts, next_pc) ==
    IF life_lost(lives, before)
    THEN IF game_over
         THEN gamePc' = "done" /\ pm_ghost_pos' = ghosts
         ELSE gamePc' = "loop" /\ pm_ghost_pos' \in respawn_ghosts(pacman)
    ELSE gamePc' = next_pc /\ pm_ghost_pos' = ghosts

\* The while loop of run_game up to the end of the Pac-Man step: the key
\* read, env.step(pacman_action) and the test of the lives.
PacmanStep ==
    /\ gamePc = "loop" /\ ~pm_victory /\ ~pm_game_over
    /\ pm_iterations < MaxIterations
    /\ \E key \in {NoKey, "UP", "DOWN", "LEFT", "RIGHT", "QUIT"} :
        LET action == IF key # NoKey THEN key ELSE pacman_action
            target == IF action \in {"RIGHT", "LEFT", "DOWN", "UP"}
                      THEN MoveFrom(pm_pacman_pos, action)
                      ELSE pm_pacman_pos
            pacman == IF pacman_blocked(target) THEN pm_pacman_pos ELSE target
            pellets == pm_pellets \ {pacman}
            col == check_collision(pacman, pm_ghost_pos, pm_lives, pm_game_over)
        IN  /\ pacman_action' = action
            /\ IF action = "QUIT"
               THEN /\ gamePc' = "done"
                    /\ UNCHANGED <<pm_pellets, pm_pacman_pos, pm_ghost_pos, pm_iterations,
                                   pm_victory, pm_game_over, pm_score, pm_lives,
                                   current_lives, tickLog, tickStart>>
               ELSE /\ current_lives' = pm_lives
                    /\ pm_iterations' = pm_iterations + 1
                    /\ pm_pacman_pos' = pacman
                    /\ pm_pellets' = pellets
                    /\ pm_score' = IF pacman \in pm_pellets THEN pm_score + 10 ELSE pm_score
                    /\ pm_lives' = col.lives
                    /\ pm_victory' = (pellets = {})
                    /\ pm_game_over' = col.game_over
                    /\ tickLog' = << <<"P", "move">> >>
                    /\ tickStart' = pm_ghost_pos
                    /\ AfterMove(col.lives, pm_lives, col.game_over, pacman, pm_ghost_pos, "A")
    /\ UNCHANGED <<lastPercepts, exceptG>>

\* One ghost's part of the loop body: get_ghost_percepts, get_next_move (tell,
\* then ask), move_ghost and the test of the lives.
GhostTurn(ghost_id, next_pc) ==
    /\ gamePc = ghost_id
    /\ \E move \in DOMAIN MOVES :
        LET ghosts == move_ghost(pm_ghost_pos, ghost_id, move)
            col == check_collision(pm_pacman_pos, ghosts, pm_lives, pm_game_over)
        IN  /\ lastPercepts' = [lastPercepts EXCEPT ![ghost_id] =
                                   get_ghost_percepts(ghost_id, pm_pacman_pos, pm_ghost_pos,
                                                      pm_pellets)]
            /\ tickLog' = tickLog \o << <<ghost_id, "percepts">>, <<ghost_id, "tell">>,
                                        <<ghost_id, "ask">>, <<ghost_id, "move">> >>
            /\ pm_lives' = col.lives
            /\ pm_game_over' = col.game_over
            /\ AfterMove(col.lives, current_lives, col.game_over, pm_pacman_pos, ghosts, next_pc)
    /\ UNCHANGED <<pm_pellets, pm_pacman_pos, pm_iterations, pm_victory, pm_score,
                   pacman_action, current_lives, tickStart, exceptG>>

\* The loop condition fails: run_game draws the last screen and returns.
GameEnds ==
    /\ gamePc = "loop" /\ (pm_victory \/ pm_game_over)
    /\ gamePc' = "done"
    /\ UNCHANGED <<pm_pellets, pm_pacman_pos, pm_ghost_pos, pm_iterations, pm_victory,
                   pm_game_over, pm_score, pm_lives, pacman_action, current_lives,
                   tickLog, tickStart, lastPercepts, exceptG>>

NextGame ==
    \/ PacmanStep
    \/ GhostTurn("A", "B")
    \/ GhostTurn("B", "C")
    \/ GhostTurn("C", "loop")
    \/ GameEnds

SpecGame == InitGame /\ [][NextGame]_vars

---------------------------------------------------------------------------
(* Properties of the tick ordering                                         *)

\* What one ghost does in a tick, in order.
GhostEvents(g) == << <<g, "percepts">>, <<g, "tell">>, <<g, "ask">>, <<g, "move">> >>

\* A whole tick: Pac-Man's move, then ghost A, ghost B and ghost C.
FullTick == << <<"P", "move">> >> \o GhostEvents("A") \o GhostEvents("B") \o GhostEvents("C")

IsPrefix(s, t) == Len(s) <= Len(t) /\ SubSeq(t, 1, Len(s)) = s

\* The events of a tick happen in the fixed order, each once; a tick that
\* is over without a life lost holds all of them.
TickInOrder ==
    gamePc # "none" =>
        /\ IsPrefix(tickLog, FullTick)
        /\ (gamePc = "loop" /\ tickLog # <<>> /\ ~(pm_lives < current_lives))
              => tickLog = FullTick

\* The ghosts that act before g in a tick.
Earlier(g) == IF g = "A" THEN {} ELSE IF g = "B" THEN {"A"} ELSE {"A", "B"}

\* The percepts handed to a ghost are those of the world in which Pac-Man
\* and the earlier ghosts have made their move of this tick and the ghost
\* itself and the later ghosts are where the tick found them.
PerceptsAreCurrent ==
    \A g \in GhostIds :
        gamePc = g =>
            lastPercepts'[g] =
                get_ghost_percepts(g, pm_pacman_pos,
                                   [h \in GhostIds |-> IF h \in Earlier(g) THEN pm_ghost_pos[h]
                                                       ELSE tickStart[h]],
                                   pm_pellets)

\* Once a life is lost in a tick nothing more happens in that tick.
LifeLostEndsTick ==
    (gamePc # "none" /\ pm_lives < current_lives) =>
        (tickLog' = tickLog \/ tickLog' = << <<"P", "move">> >>)

\* C20: in every tick Pac-Man's move is applied first, then ghost A's
\* percepts, tell, ask and move, then ghost B's, then ghost C's; each ghost's
\* percepts come from the world holding every move made earlier in the tick
\* and none made later; each ghost's tell precedes its ask, once per tick;
\* and after a life is lost no later ghost acts in that tick.
C20_TickOrdering == []TickInOrder /\ [][PerceptsAreCurrent /\ LifeLostEndsTick]_vars

\* A tick run to its end in which ghost A stepped next to ghost B's line of
\* sight and ghost B was told where ghost A then stood.
C20_Witness ==
    /\ gamePc = "loop" /\ tickLog = FullTick
    /\ pm_ghost_pos["A"] # tickStart["A"]
    /\ <<"A", pm_ghost_pos["A"]>> \in Range(lastPercepts["B"].other_ghost_pos)
    /\ pm_pacman_pos = lastPercepts["C"].pacman_pos

---------------------------------------------------------------------------
(* Properties of the PacmanVector belief                                   *)

\* C23: no PacmanVector fact with value (0,0) is ever in the store.
C23_VectorNeverZero == PacmanVector(Const(0), Const(0)) \notin facts

\* A tell that reports no new non-zero displacement of Pac-Man: it does not
\* see Pac-Man, or sees it where it was last seen, or sees it for the first
\* time.
NoNewDisplacement ==
    /\ IsTell
    /\ \/ cArgs'.pacman_pos = None
       \/ last_pacman_pos = None
       \/ cArgs'.pacman_pos = last_pacman_pos

\* C24: once a PacmanVector fact is in the store, a tell in which Pac-Man is
\* not visible, or is visible with zero displacement, leaves that fact in
\* the store with the same value.
C24_StaleVectorPersists ==
    [][(NoNewDisplacement /\ OfType(facts, "PacmanVector") # {})
          => OfType(facts', "PacmanVector") = OfType(facts, "PacmanVector")]_vars

---------------------------------------------------------------------------
(* Properties of the escape commitment and of path following               *)

\* The targets of the EscapeState facts of the store that have not expired
\* and lie away from the present position.
ActiveEscapeTargets ==
    {<<f.args[1].i, f.args[2].i>> :
        f \in {e \in OfType(facts, "EscapeState") :
                 /\ current_time - e.args[3].i <= 20
                 /\ <<e.args[1].i, e.args[2].i>> # my_pos}}

\* C27: on every tick at which an unexpired EscapeState fact exists whose
\* target differs from the current position, the goal ask pursues is the
\* escape target, whatever ghosts are near and whether or not Pac-Man is seen.
C27_EscapeHasPriority ==
    [][(IsAsk /\ ActiveEscapeTargets # {}) => cPlan'.new_goal \in ActiveEscapeTargets]_vars

\* The ask about to run follows the stored path, and the present position
\* is not on it.
FollowsStalePath ==
    /\ IsAsk /\ ~cPlan'.replanned
    /\ current_path # <<>> /\ my_pos \notin Range(current_path)

\* C21: when the current position is not in the stored path as ask executes
\* it, the path is discarded and the move returned is the fallback move, not
\* one read from the path; a path stored later is computed by BFS from the
\* position the agent is at.
C21_PathDesyncRecovery ==
    [][/\ FollowsStalePath =>
            /\ current_path' = <<>> /\ goal' = None
            /\ cMove' \in get_safe_fallback_move(facts', my_pos)
       /\ (IsAsk /\ current_path' # <<>> /\ current_path' # current_path) =>
            /\ cPlan'.replanned
            /\ Head(current_path') = my_pos]_vars

\* An ask that found the present position missing from the stored path.
C21_Witness ==
    /\ cCall.op = "ask" /\ cPlan.path_invalid
    /\ current_path = <<>> /\ goal = None /\ cMove \in DOMAIN MOVES

---------------------------------------------------------------------------
(* Ghost B (ghost_b_kb.py): KnowledgeBaseB.tell and ask as functions of the *)
(* knowledge base kb, a record of the object's fields.                     *)

\* The ticks a clue lives, the distance beyond which a junction is far, the
\* length of the visited-junction deque and the ticks a loiter lasts.
MAX_CLUE_AGE == 25
FAR_JUNCTION_DIST == 5
VISITED_MAXLEN == 12
MAX_LOITER_TIME == 4

\* _infer_junction counting only the neighbours already marked safe.
infer_junction_known_only(kb, pos) ==
    IF pos \in kb.walls THEN kb
    ELSE IF Cardinality({i \in 1..4 : get_neighbors(pos)[i] \in kb.safe_tiles}) >= 3
    THEN [kb EXCEPT !.junctions = @ \cup {pos}]
    ELSE kb

\* _infer_junction: a neighbour counts unless it is a known wall.
infer_junction(kb, pos) ==
    IF pos \in kb.walls THEN kb
    ELSE IF Cardinality({i \in 1..4 : get_neighbors(pos)[i] \notin kb.walls}) >= 3
    THEN [kb EXCEPT !.junctions = @ \cup {pos}]
    ELSE kb

\* _infer_junction called on each tile of tiles in turn.
RECURSIVE infer_junctions(_, _)
infer_junctions(kb, tiles) ==
    IF tiles = <<>> THEN kb
    ELSE infer_junctions(infer_junction(kb, Head(tiles)), Tail(tiles))

\* _mark_safe
mark_safe(kb, pos) ==
    IF pos \in kb.safe_tiles THEN kb
    ELSE LET marked == [kb EXCEPT !.safe_tiles = @ \cup {pos},
                                  !.walls = @ \ {pos},
                                  !.unknown_tiles =
                                      (@ \ {pos}) \cup {n \in Range(get_neighbors(pos)) :
                                                          n \notin kb.safe_tiles /\ n \notin kb.walls}]
         IN  infer_junctions(marked,
                             <<pos>> \o SelectSeq(get_neighbors(pos),
                                                  LAMBDA n : n \in marked.safe_tiles))

\* tell, the first block: my_pos and the marking of the tile stood on, with
\* the frontier seeded on the first call.
tell_position(kb, pos) ==
    LET here == mark_safe([kb EXCEPT !.my_pos = pos], pos)
    IN  IF ~kb.initialized
        THEN [here EXCEPT !.unknown_tiles = @ \cup {n \in Range(get_neighbors(pos)) :
                                                      n \notin here.walls},
                          !.initialized = TRUE]
        ELSE here

\* The body of tell's loop over percepts.items() for one entry: st holds the
\* knowledge base and new_clue_pos.
tell_percept(st, pos, item) ==
    IF item = "WALL"
    THEN [st EXCEPT !.kb = [@ EXCEPT !.walls = @ \cup {pos},
                                     !.safe_tiles = @ \ {pos},
                                     !.unknown_tiles = @ \ {pos},
                                     !.junctions = @ \ {pos}]]
    ELSE LET safe == mark_safe(st.kb, pos)
         IN  IF item = "PELLET"
             THEN [st EXCEPT !.kb = [safe EXCEPT !.believed_pellets = @ \cup {pos}]]
             ELSE IF item = "EMPTY" /\ pos \in safe.believed_pellets
             THEN [kb |-> [safe EXCEPT !.believed_pellets = @ \ {pos}], new_clue_pos |-> pos]
             ELSE [st EXCEPT !.kb = safe]

\* tell's loop over percepts.items(), in the order of the entries.
RECURSIVE tell_percepts(_, _)
tell_percepts(st, percepts) ==
    IF percepts = <<>> THEN st
    ELSE tell_percepts(tell_percept(st, Head(percepts)[1], Head(percepts)[2]), Tail(percepts))

\* "2. Update Clues" without the test of the age.
RECURSIVE alive_clues_ageless(_, _, _)
alive_clues_ageless(clues, pos, visible) ==
    IF clues = <<>> THEN <<>>
    ELSE LET c == Head(clues)
             rest == alive_clues_ageless(Tail(clues), pos, visible)
         IN  IF c[1] = pos THEN rest
             ELSE IF visible THEN rest
             ELSE << <<c[1], c[2] + 1>> >> \o rest

\* tell, "2. Update Clues": the clues that stay alive, one tick older.
RECURSIVE alive_clues(_, _, _)
alive_clues(clues, pos, visible) ==
    IF clues = <<>> THEN <<>>
    ELSE LET c == Head(clues)
             rest == alive_clues(Tail(clues), pos, visible)
         IN  IF c[1] = pos THEN rest
             ELSE IF visible THEN rest
             ELSE IF c[2] < MAX_CLUE_AGE THEN << <<c[1], c[2] + 1>> >> \o rest
             ELSE rest

\* "3. Update Pacman Interaction" without the reset of the clue list on sight.
pacman_interaction_keeps_clues(kb, pacman_pos, new_clue_pos) ==
    LET inserted == IF new_clue_pos # None
                    THEN << <<new_clue_pos, 0>> >> \o kb.clues ELSE kb.clues
        kept == IF Len(inserted) > 2
                THEN SubSeq(inserted, 1, Len(inserted) - 1) ELSE inserted
    IN  IF pacman_pos # None
        THEN [kb EXCEPT !.pacman_visible = TRUE, !.pacman_last_pos = pacman_pos,
                        !.clues = kept, !.is_loitering = FALSE, !.goal = None]
        ELSE [kb EXCEPT !.pacman_visible = FALSE, !.clues = kept]

\* tell, "3. Update Pacman Interaction"
pacman_interaction(kb, pacman_pos, new_clue_pos) ==
    IF pacman_pos # None
    THEN [kb EXCEPT !.pacman_visible = TRUE, !.pacman_last_pos = pacman_pos,
                    !.clues = <<>>, !.is_loitering = FALSE, !.goal = None]
    ELSE IF new_clue_pos # None
    THEN LET inserted == << <<new_clue_pos, 0>> >> \o kb.clues
         IN  [kb EXCEPT !.pacman_visible = FALSE,
                        !.clues = IF Len(inserted) > 2
                                  THEN SubSeq(inserted, 1, Len(inserted) - 1)
                                  ELSE inserted]
    ELSE [kb EXCEPT !.pacman_visible = FALSE]

\* KnowledgeBaseB.tell(my_pos, pacman_pos, other_ghost_pos, percepts): the
\* knowledge base after it. percepts is the sequence of the entries of the
\* percept map, in the order the map holds them; other_ghost_pos is not read.
b_tell(kb, pos, pacman_pos, percepts) ==
    LET seen == tell_percepts([kb |-> tell_position(kb, pos), new_clue_pos |-> None], percepts)
        aged == [seen.kb EXCEPT !.clues = alive_clues(seen.kb.clues, pos, kb.pacman_visible)]
    IN  pacman_interaction(aged, pacman_pos, seen.new_clue_pos)

\* What ask returns: the knowledge base it leaves, the move and the record of
\* what it did.
AskB(kb, move, plan) == [kb |-> kb, move |-> move, plan |-> plan]

\* The planning mesh of ask: safe and unknown tiles and the tile stood on.
planning_mesh(kb) == kb.safe_tiles \cup kb.unknown_tiles \cup {kb.my_pos}

\* A loiter step that walks on from wherever the ghost stands.
execute_loiter_step_wander(kb, mesh) ==
    LET neighbors == {n \in Range(get_neighbors(kb.my_pos)) : n \in mesh}
    IN  IF neighbors # {}
        THEN {get_move_from_path(kb.my_pos, <<kb.my_pos, step_out>>) : step_out \in neighbors}
        ELSE {"WAIT"}

\* _execute_loiter_step: the moves it can return.
execute_loiter_step(kb, mesh) ==
    IF kb.my_pos = kb.loiter_anchor
    THEN LET neighbors == {n \in Range(get_neighbors(kb.loiter_anchor)) : n \in mesh}
         IN  IF neighbors # {}
             THEN {get_move_from_path(kb.my_pos, <<kb.my_pos, step_out>>) :
                      step_out \in neighbors}
             ELSE {"WAIT"}
    ELSE {get_move_from_path(kb.my_pos, <<kb.my_pos, kb.loiter_anchor>>)}

\* _select_best_clue: the first clue of the lowest score.
select_best_clue(kb) ==
    LET score(i) == ManhattanDist(kb.clues[i][1], kb.my_pos) + kb.clues[i][2] * 2
        best == {i \in DOMAIN kb.clues :
                    /\ score(i) < 9999
                    /\ \A j \in DOMAIN kb.clues :
                          score(j) > score(i) \/ (score(j) = score(i) /\ j >= i)}
    IN  IF best = {} THEN None ELSE kb.clues[CHOOSE i \in best : TRUE][1]

\* GhostB.get_next_move, Rule 2 (ghost_b.py): the junction nearest to the
\* clue, or the clue when no junction is found.
select_ambush_spot(kb) ==
    LET clue == select_best_clue(kb)
        ambush_spot == find_nearest_coord(clue, kb.junctions, kb.safe_tiles)
    IN  IF ambush_spot # None THEN ambush_spot ELSE clue

\* _select_new_goal
select_new_goal(kb, mesh) ==
    LET is_valid(c) == c \notin kb.walls /\ c \in mesh /\ c # kb.my_pos
        excluded == {kb.my_pos} \cup Range(kb.visited_junctions)
        far_juncs == {j \in kb.junctions :
                        /\ j \notin excluded
                        /\ ManhattanDist(j, kb.my_pos) > FAR_JUNCTION_DIST
                        /\ is_valid(j)}
        unknowns == {u \in kb.unknown_tiles : is_valid(u)}
        nearby_juncs == {j \in kb.junctions : j # kb.my_pos /\ is_valid(j)}
    IN  IF kb.pacman_visible THEN kb.pacman_last_pos
        ELSE IF kb.clues # <<>> THEN select_best_clue(kb)
        ELSE IF far_juncs # {} THEN find_nearest_coord(kb.my_pos, far_juncs, mesh)
        ELSE IF unknowns # {} THEN find_nearest_coord(kb.my_pos, unknowns, mesh)
        ELSE IF nearby_juncs # {} THEN find_nearest_coord(kb.my_pos, nearby_juncs, mesh)
        ELSE None

\* _get_random_optimistic_move: the moves it can return.
get_random_optimistic_move(kb) ==
    LET possible == {m \in Range(CardinalMoves) :
                        /\ MoveFrom(kb.my_pos, m) \notin kb.walls
                        /\ MoveFrom(kb.my_pos, m) \in kb.safe_tiles \cup kb.unknown_tiles}
    IN  IF possible # {} THEN possible ELSE {"WAIT"}

\* ask, "2. ARRIVAL & CAMPING", the junction branch: the visit recorded in the
\* deque of the last VISITED_MAXLEN junctions.
record_visit(visited, pos) ==
    LET without == SelectSeq(visited, LAMBDA j : j # pos)
        appended == IF pos \notin Range(visited) THEN Append(visited, pos)
                    ELSE IF visited[Len(visited)] # pos THEN Append(without, pos)
                    ELSE visited
    IN  IF Len(appended) > VISITED_MAXLEN THEN Tail(appended) ELSE appended

\* ask, "4. PATHFINDING": the knowledge base after the replanning block.
b_plan_path(kb, mesh) ==
    IF kb.goal = None THEN kb
    ELSE LET needs_path ==
                 \/ kb.current_path = <<>>
                 \/ /\ kb.current_path[1] \notin Range(get_neighbors(kb.my_pos))
                    /\ kb.current_path[1] # kb.my_pos
             path == bfs_pathfinder(kb.my_pos, kb.goal, mesh)
         IN  IF ~needs_path THEN kb
             ELSE IF path # NoPath
             THEN [kb EXCEPT !.current_path = IF path[1] = kb.my_pos THEN Tail(path) ELSE path]
             ELSE [kb EXCEPT !.goal = None]

\* ask, "5. EXECUTION" and "6. FALLBACK"
execute_path(kb, plan) ==
    IF kb.current_path # <<>>
    THEN LET next_step == kb.current_path[1]
             popped == [kb EXCEPT !.current_path = Tail(@)]
         IN  IF next_step \in kb.walls
             THEN {AskB([kb EXCEPT !.current_path = <<>>], "WAIT", plan)}
             ELSE IF next_step = kb.my_pos
             THEN IF popped.current_path # <<>>
                  THEN {AskB(popped,
                             get_move_from_path(kb.my_pos, <<kb.my_pos, popped.current_path[1]>>),
                             plan)}
                  ELSE {AskB(popped, "WAIT", plan)}
             ELSE {AskB(kb, get_move_from_path(kb.my_pos, <<kb.my_pos, next_step>>), plan)}
    ELSE {AskB(kb, m, [plan EXCEPT !.fallback = TRUE]) : m \in get_random_optimistic_move(kb)}

\* ask, "3. GOAL SELECTION" onwards.
select_and_move(kb, mesh) ==
    LET chosen == select_new_goal(kb, mesh)
        selected == IF kb.goal = None
                    THEN [kb EXCEPT !.goal = chosen, !.current_path = <<>>]
                    ELSE kb
        plan == IF kb.goal = None THEN PlanB(TRUE, chosen, FALSE, FALSE)
                ELSE PlanB(FALSE, None, FALSE, FALSE)
    IN  execute_path(b_plan_path(selected, mesh), plan)

\* ask, "2. ARRIVAL & CAMPING" onwards.
arrive_and_move(kb, mesh) ==
    IF kb.goal # None /\ kb.my_pos = kb.goal
    THEN IF kb.my_pos \in kb.junctions
         THEN {AskB([kb EXCEPT !.visited_junctions = record_visit(@, kb.my_pos),
                               !.is_loitering = TRUE,
                               !.loiter_timer = MAX_LOITER_TIME,
                               !.loiter_anchor = kb.my_pos,
                               !.goal = None,
                               !.current_path = <<>>],
                     "WAIT", PlanB(FALSE, None, FALSE, FALSE))}
         ELSE select_and_move([kb EXCEPT !.goal = None, !.current_path = <<>>], mesh)
    ELSE select_and_move(kb, mesh)

\* KnowledgeBaseB.ask(): every result it can produce.
b_ask(kb) ==
    IF kb.my_pos = None THEN {AskB(kb, "WAIT", PlanB(FALSE, None, FALSE, FALSE))}
    ELSE LET mesh == planning_mesh(kb)
             checked == IF kb.goal # None /\ kb.goal \in kb.walls
                        THEN [kb EXCEPT !.goal = None, !.current_path = <<>>]
                        ELSE kb
             ticked == [checked EXCEPT !.loiter_timer = @ - 1]
         IN  IF checked.is_loitering
             THEN IF ticked.loiter_timer <= 0 \/ ticked.pacman_visible
                  THEN arrive_and_move([ticked EXCEPT !.is_loitering = FALSE, !.goal = None,
                                                      !.current_path = <<>>], mesh)
                  ELSE {AskB(ticked, m, PlanB(FALSE, None, FALSE, TRUE)) :
                           m \in execute_loiter_step(ticked, mesh)}
             ELSE arrive_and_move(checked, mesh)

---------------------------------------------------------------------------
(* SpecGhostB: run_game with Ghost B in a small maze. Pac-Man walks as the *)
(* player likes, the ghost is told what get_ghost_percepts sees, asked for *)
(* its move and moved; a collision costs a life and sends the ghost to a   *)
(* corner. Ghosts A and C are left out of this world.                      *)

\* The maze: two rows joined by a one-tile passage between two wall tiles.
BMazeRows ==
    << <<"#", "#", "#", "#", "#">>,
       <<"#", " ", " ", " ", "#">>,
       <<"#", "#", " ", "#", "#">>,
       <<"#", " ", " ", " ", "#">>,
       <<"#", "#", "#", "#", "#">> >>
bm_w == Len(BMazeRows[1])
bm_h == Len(BMazeRows)
bm_walls == {c \in (0..(bm_w - 1)) \X (0..(bm_h - 1)) : BMazeRows[c[2] + 1][c[1] + 1] = "#"}

\* Environment.ghost_blocked and pacman_blocked in this maze.
bm_blocked(c) ==
    ~(0 <= c[1] /\ c[1] < bm_w /\ 0 <= c[2] /\ c[2] < bm_h) \/ c \in bm_walls

\* get_ghost_percepts: the entries of percept_map for the cells i.. of the
\* ray from p along d, in the order they are written; the first wall ends
\* the ray.
RECURSIVE ray_percepts(_, _, _, _, _)
ray_percepts(pacman, pellets, p, d, i) ==
    IF i > 4 THEN <<>>
    ELSE LET pos == RayCell(p, d, i)
         IN  IF pos \in bm_walls THEN << <<pos, "WALL">> >>
             ELSE << <<pos, IF pos = pacman THEN "PACMAN"
                            ELSE IF pos \in pellets THEN "PELLET"
                            ELSE "EMPTY">> >> \o ray_percepts(pacman, pellets, p, d, i + 1)

\* Environment.get_ghost_percepts for a ghost at p with no other ghost in
\* sight: pacman_pos and the entries of percept_map in the order of the map.
maze_percepts(p, pacman, pellets) ==
    LET rays == ray_percepts(pacman, pellets, p, Directions[1], 1)
                \o ray_percepts(pacman, pellets, p, Directions[2], 1)
                \o ray_percepts(pacman, pellets, p, Directions[3], 1)
                \o ray_percepts(pacman, pellets, p, Directions[4], 1)
    IN  [pacman_pos |-> IF \E i \in DOMAIN rays : rays[i][2] = "PACMAN"
                        THEN pacman ELSE None,
         percepts |-> rays]

\* Environment.respawn_ghosts: the corners ghost B can be sent to, the three
\* farthest from Pac-Man (a stable sort, the first three shuffled).
respawn_corners(pacman) ==
    LET corners == << <<1, 1>>, <<bm_w - 2, 1>>, <<1, bm_h - 2>>, <<bm_w - 2, bm_h - 2>> >>
        dist(i) == ManhattanDist(corners[i], pacman)
        last == CHOOSE i \in DOMAIN corners :
                    \A j \in DOMAIN corners :
                        j # i => (dist(j) > dist(i) \/ (dist(j) = dist(i) /\ j < i))
    IN  {corners[i] : i \in DOMAIN corners \ {last}}

\* The number of iterations of run_game's loop followed.
MaxBTicks == 10

InitGhostB ==
    /\ kbB = KnowledgeBaseB
    /\ envB = [pacman_pos |-> <<3, 1>>, ghostB_pos |-> <<1, 1>>,
               pellets |-> {<<2, 2>>, <<1, 3>>}, lives |-> 2]
    /\ pcB = "pacman" /\ moveB = "" /\ planB = PlanB(FALSE, None, FALSE, FALSE)
    /\ argsB = [pacman_pos |-> None, percepts |-> <<>>] /\ ticksB = 0
    /\ prevB = KnowledgeBaseB
    /\ UnifyIdle /\ BfsIdle /\ VacuumIdle /\ GhostCIdle /\ GhostAIdle /\ GameIdle

\* Where run_game goes after a step that left the world env: to the end of
\* the game, to a respawn and the next iteration, or on to next_pc.
AfterStepB(env, lives_before, next_pc) ==
    IF env.lives < lives_before
    THEN IF env.lives = -1
         THEN pcB' = "done" /\ envB' = env
         ELSE /\ pcB' = "pacman"
              /\ \E corner \in respawn_corners(env.pacman_pos) :
                    envB' = [env EXCEPT !.ghostB_pos = corner]
    ELSE /\ envB' = env
         /\ pcB' = IF next_pc = "pacman" /\ env.pellets = {} THEN "done" ELSE next_pc

\* env.step(pacman_action) and the test of the lives that follows it.
BPacmanStep ==
    /\ pcB = "pacman"
    /\ ticksB < MaxBTicks
    /\ \E action \in DOMAIN MOVES :
        LET target == MoveFrom(envB.pacman_pos, action)
            pacman == IF bm_blocked(target) THEN envB.pacman_pos ELSE target
            hit == pacman = envB.ghostB_pos
            env == [envB EXCEPT !.pacman_pos = pacman,
                                !.pellets = @ \ {pacman},
                                !.lives = IF hit THEN @ - 1 ELSE @]
        IN  AfterStepB(env, envB.lives, "tell")
    /\ ticksB' = ticksB + 1
    /\ UNCHANGED <<kbB, moveB, planB, argsB, prevB, exceptK>>

\* Ghost.get_next_move, the tell: the percepts of the world as it stands.
\* prevB keeps the knowledge base the tell started from.
BTell ==
    /\ pcB = "tell"
    /\ LET seen == maze_percepts(envB.ghostB_pos, envB.pacman_pos, envB.pellets)
       IN  /\ kbB' = b_tell(kbB, envB.ghostB_pos, seen.pacman_pos, seen.percepts)
           /\ argsB' = seen
    /\ prevB' = kbB
    /\ pcB' = "ask"
    /\ UNCHANGED <<envB, moveB, planB, ticksB, exceptK>>

\* Ghost.get_next_move, the ask.
BAsk ==
    /\ pcB = "ask"
    /\ \E r \in b_ask(kbB) :
          /\ kbB' = r.kb
          /\ moveB' = r.move
          /\ planB' = r.plan
    /\ pcB' = "move"
    /\ UNCHANGED <<envB, argsB, ticksB, prevB, exceptK>>

\* env.move_ghost('B', move_B) and the test of the lives that follows it.
BMove ==
    /\ pcB = "move"
    /\ LET target == MoveFrom(envB.ghostB_pos, moveB)
           ghost == IF bm_blocked(target) THEN envB.ghostB_pos ELSE target
           hit == envB.pacman_pos = ghost
           env == [envB EXCEPT !.ghostB_pos = ghost,
                               !.lives = IF hit THEN @ - 1 ELSE @]
       IN  AfterStepB(env, envB.lives, "pacman")
    /\ UNCHANGED <<kbB, moveB, planB, argsB, ticksB, prevB, exceptK>>

NextGhostB == BPacmanStep \/ BTell \/ BAsk \/ BMove

SpecGhostB == InitGhostB /\ [][NextGhostB]_vars

---------------------------------------------------------------------------
(* SpecGhostCMaze: Ghost.get_next_move on Ghost C in the same maze, told   *)
(* what get_ghost_percepts sees from the tile its last move took it to.    *)

\* The number of ticks followed.
MaxMazeTicks == 9

\* The tiles of the maze that are no walls.
bm_open == ((0..(bm_w - 1)) \X (0..(bm_h - 1))) \ bm_walls

\* The tile ghost C is told from: its start corner, then the tile move_ghost
\* takes it to with the move ask returned.
maze_position ==
    IF cCall.op = "new" THEN <<1, bm_h - 2>>
    ELSE IF bm_blocked(MoveFrom(my_pos, cMove)) THEN my_pos
    ELSE MoveFrom(my_pos, cMove)

\* percept_map as the map the knowledge base reads.
percept_map(entries) ==
    [c \in {entries[i][1] : i \in DOMAIN entries} |->
        LET i == CHOOSE j \in DOMAIN entries : entries[j][1] = c IN entries[i][2]]

\* Pac-Man is out of sight or on a tile in the line of sight; ghosts A and B
\* stay out of sight (the knowledge base reads the label of a tile only to
\* tell a wall from any other tile).
MazeTell ==
    /\ cCall.op \in {"new", "ask"}
    /\ current_time < MaxMazeTicks
    /\ LET entries == maze_percepts(maze_position, None, {}).percepts
           in_sight == {entries[i][1] : i \in DOMAIN entries} \ bm_walls
       IN  \E pacman \in in_sight \cup {None} :
              Tell(maze_position, pacman, <<>>, percept_map(entries))

NextGhostCMaze == MazeTell \/ Ask

SpecGhostCMaze == InitGhostC /\ [][NextGhostCMaze]_vars

\* SpecFallback: one of the three ghosts constructed and run, A on its
\* corridor, B and C in the maze.
InitFallback == InitGhostA \/ InitGhostB \/ InitGhostC
NextFallback == NextGhostA \/ NextGhostB \/ NextGhostCMaze
SpecFallback == InitFallback /\ [][NextFallback]_vars

---------------------------------------------------------------------------
(* Properties of the last-resort moves and of Ghost B                      *)

\* The coordinates a store of Ghost C holds LearnedWall facts for.
KnownWallsC(fs) == {<<f.args[1].i, f.args[2].i>> : f \in OfType(fs, "LearnedWall")}

\* move is a cardinal move from pos to a tile outside walls if pos has such a
\* neighbour, and WAIT if it has none.
TrappedMove(move, pos, walls) ==
    IF \E m \in Range(CardinalMoves) : MoveFrom(pos, m) \notin walls
    THEN move \in Range(CardinalMoves) /\ MoveFrom(pos, move) \notin walls
    ELSE move = "WAIT"

\* Every move _get_patrol_move can return for Ghost A as it stands.
TrappedFallbackA ==
    aCall # "off" =>
        \A m \in get_patrol_move(a_my_pos, a_walls, a_last_move) :
            TrappedMove(m, a_my_pos, a_walls)

\* Every move _get_random_optimistic_move can return for Ghost B once told.
TrappedFallbackB ==
    pcB \in {"ask", "move"} =>
        \A m \in get_random_optimistic_move(kbB) : TrappedMove(m, kbB.my_pos, kbB.walls)

\* The move of an ask of Ghost C that ends without a path, which is the move
\* _get_safe_fallback_move gave it.
TrappedFallbackC ==
    (cCall.op = "ask" /\ current_path = <<>>) =>
        TrappedMove(cMove, my_pos, KnownWallsC(facts))

\* C22: in each ghost's knowledge base the last-resort move (_get_patrol_move
\* of A, _get_random_optimistic_move of B, _get_safe_fallback_move of C) is a
\* cardinal move toward a tile that is not a known wall whenever such a
\* neighbour exists, and WAIT only when all four neighbours are known walls.
C22_TrappedFallback == TrappedFallbackA /\ TrappedFallbackB /\ TrappedFallbackC

\* Ghost C, out of goals with a known wall beside it, has been given a
\* cardinal move by _get_safe_fallback_move.
C22_Witness ==
    /\ cCall.op = "ask" /\ current_path = <<>> /\ goal = None
    /\ cMove \in Range(CardinalMoves)
    /\ \E m \in Range(CardinalMoves) : MoveFrom(my_pos, m) \in KnownWallsC(facts)

\* C28: ask of Ghost B never returns a cardinal move whose destination is in
\* the known-walls set when ask returns.
C28_NoMoveIntoKnownWall ==
    (pcB = "move" /\ moveB \in Range(CardinalMoves)) =>
        MoveFrom(kbB.my_pos, moveB) \notin kbB.walls

\* The neighbours of tile t that kb does not hold as walls, and those it
\* holds as safe.
OpenNeighbors(kb, t) == {n \in Range(get_neighbors(t)) : n \notin kb.walls}
SafeNeighbors(kb, t) == {n \in Range(get_neighbors(t)) : n \in kb.safe_tiles}

\* C25: after a tell of Ghost B in which Pac-Man is visible the clue list is
\* empty and loitering is off, and the goal the following ask chooses is
\* Pac-Man's reported position.
C25_SightClearsClues ==
    /\ (pcB = "ask" /\ argsB.pacman_pos # None) =>
          /\ kbB.clues = <<>>
          /\ ~kbB.is_loitering
    /\ (pcB = "move" /\ argsB.pacman_pos # None) =>
          /\ planB.selected
          /\ planB.new_goal = argsB.pacman_pos

\* Pac-Man is in sight in a tell that started with a clue in the list; the
\* ask that followed chose his position.
C25_Witness ==
    /\ pcB = "move" /\ argsB.pacman_pos # None
    /\ prevB.clues # <<>>
    /\ planB.selected /\ planB.new_goal = argsB.pacman_pos /\ kbB.clues = <<>>

\* C26: after every tell of Ghost B every known-safe tile with at least
\* three cardinal neighbours that are safe or not known as walls is in the
\* junction set.
C26_JunctionCompleteness ==
    pcB = "ask" =>
        \A t \in kbB.safe_tiles :
            Cardinality(OpenNeighbors(kbB, t)) >= 3 => t \in kbB.junctions

\* A tile known safe before the tell has its third safe neighbour marked in
\* this tell and is in the junction set.
C26_Witness ==
    /\ pcB = "ask"
    /\ \E t \in prevB.safe_tiles :
          /\ Cardinality(SafeNeighbors(prevB, t)) < 3
          /\ Cardinality(SafeNeighbors(kbB, t)) >= 3
          /\ t \in kbB.junctions

\* C29: after every tell of Ghost B every tile of the junction set is a
\* known-safe tile with at least three cardinal neighbours that are known
\* safe; neighbours of unknown status do not count.
C29_JunctionSoundness ==
    pcB = "ask" =>
        \A t \in kbB.junctions :
            t \in kbB.safe_tiles /\ Cardinality(SafeNeighbors(kbB, t)) >= 3

\* C30: when Pac-Man is not visible and a clue exists, the goal Ghost B
\* selects is the known junction nearest to the clue, and the clue itself
\* only when no junction is found.
C30_AmbushAtJunction ==
    (pcB = "move" /\ planB.selected /\ ~kbB.pacman_visible /\ kbB.clues # <<>>) =>
        planB.new_goal = select_ambush_spot(kbB)

---------------------------------------------------------------------------
(* Ghost A in the maze and on a 4 x 3 board                                *)

\* The tile ghost A is told from in the maze: a start tile, then the tile
\* move_ghost takes it to with the move ask returned.
a_maze_positions ==
    IF aCall = "new" THEN bm_open
    ELSE IF bm_blocked(MoveFrom(a_my_pos, a_last_move)) THEN {a_my_pos}
    ELSE {MoveFrom(a_my_pos, a_last_move)}

\* Ghost.get_next_move on Ghost A, the tell: what get_ghost_percepts sees
\* from the ghost's tile, with Pac-Man out of sight or on a tile in the line
\* of sight.
AMazeTell ==
    /\ aCall \in {"new", "ask"}
    /\ \E pos \in a_maze_positions :
        LET entries == maze_percepts(pos, None, {}).percepts
            in_sight == {entries[i][1] : i \in DOMAIN entries} \ bm_walls
        IN  \E pacman \in in_sight \cup {None} :
               ATell(pos, pacman, percept_map(entries))

NextGhostAMaze == AMazeTell \/ AAsk

SpecGhostAMaze == InitGhostA /\ [][NextGhostAMaze]_vars

\* The number of tell calls followed on the board.
MaxBoardTells == 2

\* The percept map of a ghost at pos whose neighbours in walled are walls
\* and whose other neighbours are floor.
board_percepts(pos, walled) ==
    [n \in Range(a_get_neighbors(pos)) |-> IF n \in walled THEN "WALL" ELSE "EMPTY"]

\* The board: the ghost stands on <<1, 1>>.
Board == (0..3) \X (0..2)

\* tell on the board: Pac-Man is reported on any tile of the board or not at
\* all, and any of the ghost's four neighbours are seen as walls.
ABoardTell ==
    /\ aTells < MaxBoardTells
    /\ \E pacman_pos \in Board \cup {None},
          walled \in SUBSET Range(a_get_neighbors(<<1, 1>>)) :
            ATell(<<1, 1>>, pacman_pos, board_percepts(<<1, 1>>, walled))

NextGhostABoard == ABoardTell \/ AAsk

SpecGhostABoard == InitGhostA /\ [][NextGhostABoard]_vars

---------------------------------------------------------------------------
(* Properties of Ghost A's moves and transitions                           *)

\* C31: when a tell takes the machine from PURSUING to INVESTIGATING, the
\* investigation target is a neighbour of the current position that is not
\* a known wall and is not the tile the ghost came from, the one reached by
\* the reverse of the move that brought it to the last known position.
C31_InvestigationDirection ==
    (/\ aCall = "tell" /\ a_current_state = STATE_INVESTIGATING
     /\ Len(aStates) >= 2 /\ aStates[Len(aStates) - 1] = STATE_PURSUING) =>
        /\ a_investigation_target \in Range(a_get_neighbors(a_my_pos))
        /\ a_investigation_target \notin a_walls
        /\ a_last_move \in Range(CardinalMoves) =>
              a_investigation_target # MoveFrom(a_my_pos, a_get_reverse(a_last_move))

\* The target ask steers to in the three states that use _smart_move.
a_target ==
    IF a_current_state = STATE_INVESTIGATING THEN a_investigation_target
    ELSE a_last_known_pacman

\* The moves toward target from pos on the axis with the larger offset (both
\* axes when the offsets are equal), and on the other axis.
TowardOn(target, pos, axis) ==
    LET d == target[axis] - pos[axis]
    IN  IF d = 0 THEN {}
        ELSE IF axis = 1 THEN {IF d > 0 THEN "RIGHT" ELSE "LEFT"}
        ELSE {IF d > 0 THEN "DOWN" ELSE "UP"}
PrimaryMoves(target, pos) ==
    LET ax == Abs(target[1] - pos[1])
        ay == Abs(target[2] - pos[2])
    IN  IF ax > ay THEN TowardOn(target, pos, 1)
        ELSE IF ay > ax THEN TowardOn(target, pos, 2)
        ELSE TowardOn(target, pos, 1) \cup TowardOn(target, pos, 2)
SecondaryMoves(target, pos) ==
    (TowardOn(target, pos, 1) \cup TowardOn(target, pos, 2)) \ PrimaryMoves(target, pos)

\* The moves whose destination is not a known wall.
FreeMoves(pos, walls) == {m \in Range(CardinalMoves) : MoveFrom(pos, m) \notin walls}

\* C32: in CHASING, PURSUING and INVESTIGATING with a target, the move ask
\* returns never leads to a known wall; it is the move toward the target on
\* the axis with the larger offset if that is free, else the move toward
\* the target on the other axis if that is free, else another free move,
\* and WAIT exactly when all four neighbours are known walls.
C32_GreedyMoveSafety ==
    (/\ aCall = "ask" /\ a_current_state # STATE_PATROLLING /\ a_target # None) =>
        LET free == FreeMoves(a_my_pos, a_walls)
            first == PrimaryMoves(a_target, a_my_pos) \cap free
            second == SecondaryMoves(a_target, a_my_pos) \cap free
        IN  /\ a_last_move \in free \cup {"WAIT"}
            /\ a_last_move = "WAIT" <=> free = {}
            /\ first # {} => a_last_move \in first
            /\ (first = {} /\ second # {}) => a_last_move \in second

\* The ghost has offsets on both axes, the move on the larger axis leads to
\* a known wall and ask returned the move on the other axis.
C32_Witness ==
    /\ aCall = "ask" /\ a_current_state # STATE_PATROLLING /\ a_target # None
    /\ PrimaryMoves(a_target, a_my_pos) # {}
    /\ PrimaryMoves(a_target, a_my_pos) \cap FreeMoves(a_my_pos, a_walls) = {}
    /\ a_last_move \in SecondaryMoves(a_target, a_my_pos)

\* A step that is an ask.
IsAAsk == aCall' = "ask" /\ aTells' = aTells

\* C33: an ask in PATROLLING repeats the last move when its destination is
\* not a known wall; otherwise it returns a free move other than the reverse
\* of the last move if there is one, the reverse when it is the only free
\* move, and WAIT exactly when all four neighbours are known walls.
PatrolStep ==
    (IsAAsk /\ a_current_state = STATE_PATROLLING) =>
        LET free == FreeMoves(a_my_pos, a_walls)
            forward == free \ {a_get_reverse(a_last_move)}
        IN  /\ a_last_move' \in free \cup {"WAIT"}
            /\ a_last_move' = "WAIT" <=> free = {}
            /\ a_last_move \in free => a_last_move' = a_last_move
            /\ (a_last_move \notin free /\ forward # {}) => a_last_move' \in forward
C33_PatrolMomentum == [][PatrolStep]_vars

\* A patrolling ghost with one free neighbour has turned to it after an
\* earlier ask had returned another move.
C33_Witness ==
    /\ aCall = "ask" /\ a_current_state = STATE_PATROLLING /\ aTells = 2
    /\ FreeMoves(a_my_pos, a_walls) = {a_last_move}

\* C37: the state changes only from any state to CHASING when the target is
\* in sight, from CHASING to PURSUING when it is not, from PURSUING to
\* INVESTIGATING on arrival at the last known position (to PATROLLING when
\* every neighbour is a known wall) and from INVESTIGATING to PATROLLING on
\* arrival at the investigation target or when it is a known wall; the
\* investigation target does not change while the state stays INVESTIGATING.
TransitionStep ==
    /\ a_current_state' # a_current_state =>
        \/ a_current_state' = STATE_CHASING /\ a_see_pacman'
        \/ /\ a_current_state = STATE_CHASING /\ a_current_state' = STATE_PURSUING
           /\ ~a_see_pacman'
        \/ /\ a_current_state = STATE_PURSUING /\ a_current_state' = STATE_INVESTIGATING
           /\ a_my_pos' = a_last_known_pacman
        \/ /\ a_current_state = STATE_PURSUING /\ a_current_state' = STATE_PATROLLING
           /\ a_my_pos' = a_last_known_pacman
           /\ ~HasOpenNeighbour(a_my_pos', a_walls')
        \/ /\ a_current_state = STATE_INVESTIGATING /\ a_current_state' = STATE_PATROLLING
           /\ a_my_pos' = a_investigation_target \/ a_investigation_target \in a_walls'
    /\ (a_current_state = STATE_INVESTIGATING /\ a_current_state' = STATE_INVESTIGATING) =>
            a_investigation_target' = a_investigation_target
C37_Transitions == [][TransitionStep]_vars

\* The machine has gone through CHASING, PURSUING and INVESTIGATING and is
\* back in PATROLLING.
C37_Witness ==
    aStates = <<STATE_CHASING, STATE_PURSUING, STATE_INVESTIGATING, STATE_PATROLLING>>

---------------------------------------------------------------------------
(* SpecGhostBTells: KnowledgeBaseB.tell called tick after tick with what   *)
(* get_ghost_percepts sees from two tiles of the maze's upper row, while   *)
(* Pac-Man eats the pellets one by one. ask writes none of the fields the  *)
(* clue list is computed from and is left out; the ages of the clues bound *)
(* the run.                                                                *)

\* The tiles the ghost is told from and the tiles that hold a pellet at the
\* start.
ClueStands == {<<1, 1>>, <<2, 1>>}
CluePellets == {<<1, 1>>, <<3, 1>>, <<2, 2>>}

InitGhostBTells ==
    /\ kbB = KnowledgeBaseB
    /\ envB = [pacman_pos |-> None, ghostB_pos |-> <<2, 1>>,
               pellets |-> CluePellets \ {<<2, 1>>}, lives |-> 2]
    /\ pcB = "tell" /\ moveB = "" /\ planB = PlanB(FALSE, None, FALSE, FALSE)
    /\ argsB = [pacman_pos |-> None, percepts |-> <<>>] /\ ticksB = 0
    /\ prevB = KnowledgeBaseB
    /\ UnifyIdle /\ BfsIdle /\ VacuumIdle /\ GhostCIdle /\ GhostAIdle /\ GameIdle

\* The tile Pac-Man is seen on when he is seen.
ClueSpot == <<2, 3>>

\* One tick: at most one pellet has been eaten, the ghost is on one of its
\* tiles (a pellet under the ghost is not seen), Pac-Man is out of sight or
\* on ClueSpot in the line of sight, and tell is called.
ClueTell ==
    /\ pcB \in {"tell", "ask"}
    /\ \E pos \in ClueStands, eaten \in {{}} \cup {{c} : c \in envB.pellets} :
        LET entries == maze_percepts(pos, None, {}).percepts
            in_sight == {entries[i][1] : i \in DOMAIN entries} \ bm_walls
            pellets == envB.pellets \ eaten
        IN  \E pacman \in (in_sight \cap {ClueSpot}) \cup {None} :
              LET seen == maze_percepts(pos, pacman, pellets)
              IN  /\ kbB' = b_tell(kbB, pos, seen.pacman_pos, seen.percepts)
                  /\ argsB' = seen
                  /\ envB' = [envB EXCEPT !.ghostB_pos = pos, !.pellets = pellets]
    /\ prevB' = kbB
    /\ pcB' = "ask"
    /\ UNCHANGED <<moveB, planB, ticksB, exceptK>>

NextGhostBTells == ClueTell

SpecGhostBTells == InitGhostBTells /\ [][NextGhostBTells]_vars

\* C34: after every tell the clue list holds at most two clues of age 25 at
\* most; every clue in it is new (age 0) or was in the list before the tell
\* with an age one less, so that a clue is gone after the 26th tell that
\* follows its creation; no clue is on the ghost's tile, and the list is
\* empty when Pac-Man is seen.
C34_ClueDecay ==
    pcB = "ask" =>
        /\ Len(kbB.clues) <= 2
        /\ \A i \in DOMAIN kbB.clues :
              /\ kbB.clues[i][2] <= MAX_CLUE_AGE
              /\ \/ kbB.clues[i][2] = 0
                 \/ \E j \in DOMAIN prevB.clues :
                       prevB.clues[j] = <<kbB.clues[i][1], kbB.clues[i][2] - 1>>
              /\ kbB.clues[i][2] > 0 => kbB.clues[i][1] # kbB.my_pos
        /\ argsB.pacman_pos # None => kbB.clues = <<>>

\* Two clues are in the list and one of them has reached age 25.
C34_Witness ==
    /\ pcB = "ask" /\ Len(kbB.clues) = 2
    /\ \E i \in DOMAIN kbB.clues : kbB.clues[i][2] = MAX_CLUE_AGE

\* Steps of run_game that are Ghost B's tell and ask.
IsBTell == pcB = "tell" /\ pcB' = "ask"
IsBAsk == pcB = "ask" /\ pcB' = "move"

\* The actions of a loitering ghost at pos with the given anchor: WAIT, any
\* step from the anchor, the step back to the anchor from a tile next to it.
LoiterMoves(pos, anchor) ==
    {"WAIT"} \cup {m \in Range(CardinalMoves) : pos = anchor \/ MoveFrom(pos, m) = anchor}

\* C35: loitering starts only in an ask made on the goal, a known junction,
\* with the timer at MAX_LOITER_TIME and the action WAIT; every later ask in
\* which it lasts lowers the timer by one and leaves it positive, so that it
\* ends at the fourth ask at the latest, and returns WAIT, a step from the
\* anchor or the step back to it; a tell that sees Pac-Man ends it; when it
\* ends the old goal and path are gone (the ask that ends it selects a goal
\* afresh).
LoiterStep ==
    /\ (~kbB.is_loitering /\ kbB'.is_loitering) =>
            /\ IsBAsk
            /\ kbB.goal # None /\ kbB.goal = kbB.my_pos /\ kbB.my_pos \in kbB.junctions
            /\ kbB'.loiter_timer = MAX_LOITER_TIME /\ kbB'.loiter_anchor = kbB.my_pos
            /\ moveB' = "WAIT"
    /\ (IsBAsk /\ kbB.is_loitering /\ kbB'.is_loitering) =>
            /\ kbB'.loiter_timer = kbB.loiter_timer - 1
            /\ kbB'.loiter_timer >= 1 /\ kbB.loiter_timer <= MAX_LOITER_TIME
            /\ moveB' \in LoiterMoves(kbB.my_pos, kbB.loiter_anchor)
            /\ kbB'.goal = None /\ kbB'.current_path = <<>>
    /\ (IsBTell /\ argsB'.pacman_pos # None) => ~kbB'.is_loitering
    /\ (kbB.is_loitering /\ ~kbB'.is_loitering) =>
            \/ /\ IsBTell /\ argsB'.pacman_pos # None
               /\ kbB'.goal = None /\ kbB'.current_path = <<>>
            \/ /\ IsBAsk /\ kbB.loiter_timer = 1
               /\ planB'.selected /\ kbB'.goal = planB'.new_goal
C35_LoiterBounded == [][LoiterStep]_vars

\* Loitering has run its four asks: the ghost is off its anchor's timer and
\* a new goal has been selected.
C35_Witness ==
    /\ pcB = "move" /\ ~kbB.is_loitering
    /\ kbB.loiter_anchor # None /\ kbB.loiter_timer = 0
    /\ planB.selected /\ ~kbB.pacman_visible

---------------------------------------------------------------------------
(* SpecGhostCEscape: Ghost.get_next_move on Ghost C in the maze, with      *)
(* ghost A standing on one tile or away, followed long enough for an       *)
(* escape commitment to run out.                                           *)

\* The number of ticks followed.
MaxEscapeTicks == 27

\* The tile ghost A is seen on when it is there and in the line of sight.
GhostASpot == <<3, 3>>

EscapeTell ==
    /\ cCall.op \in {"new", "ask"}
    /\ current_time < MaxEscapeTicks
    /\ LET entries == maze_percepts(maze_position, None, {}).percepts
           in_sight == {entries[i][1] : i \in DOMAIN entries} \ bm_walls
       IN  \E others \in {<<>>} \cup {<< <<"A", g>> >> : g \in in_sight \cap {GhostASpot}} :
              Tell(maze_position, None, others, percept_map(entries))

NextGhostCEscape == EscapeTell \/ Ask

SpecGhostCEscape == InitGhostC /\ [][NextGhostCEscape]_vars

\* The EscapeState facts of the store, their targets and their ages.
EscapeFacts == OfType(facts, "EscapeState")
EscapeTarget(f) == <<f.args[1].i, f.args[2].i>>
EscapeAge(f) == current_time - f.args[3].i

\* C36: the store never holds two EscapeState facts; when ask returns, no
\* EscapeState is older than 20 ticks (one asserted at t0 is gone after the
\* ask at t0 + 21), and none asserted at an earlier tick has the ghost's
\* position as its target.
C36_EscapeSingleAndExpires ==
    /\ Cardinality(EscapeFacts) <= 1
    /\ cCall.op = "ask" =>
          \A f \in EscapeFacts :
              /\ EscapeAge(f) <= 20
              /\ EscapeAge(f) > 0 => EscapeTarget(f) # my_pos

\* The tell at t0 + 21 of an EscapeState asserted at t0 and still in the
\* store: the ask that follows finds it expired.
C36_Witness ==
    /\ cCall.op = "tell"
    /\ \E f \in EscapeFacts : EscapeAge(f) = 21 /\ EscapeTarget(f) # my_pos

\* C38: a cardinal move returned by Ghost C's ask leads to a tile that holds
\* a LearnedSafe fact or is the goal ask leaves; every move the fallback can
\* return from the store as it stands is WAIT or leads to a LearnedSafe tile.
C38_MoveSafetyC ==
    /\ (cCall.op = "ask" /\ cMove \in Range(CardinalMoves)) =>
          \/ is_position_safe(facts, MoveFrom(my_pos, cMove))
          \/ MoveFrom(my_pos, cMove) = goal
    /\ cCall.op \in {"tell", "ask"} =>
          \A m \in get_safe_fallback_move(facts, my_pos) :
              m = "WAIT" \/ is_position_safe(facts, MoveFrom(my_pos, m))

\* ask has returned the step into its goal, a tile without a LearnedSafe
\* fact, while another neighbour is neither known safe nor a known wall.
C38_Witness ==
    /\ cCall.op = "ask" /\ cMove \in Range(CardinalMoves)
    /\ MoveFrom(my_pos, cMove) = goal
    /\ ~is_position_safe(facts, goal)
    /\ \E m \in Range(CardinalMoves) :
          /\ m # cMove
          /\ ~is_position_safe(facts, MoveFrom(my_pos, m))
          /\ MoveFrom(my_pos, m) \notin KnownWallsC(facts)

\* The LastPos facts of fs for ghost 'C'.
LastPosFacts(fs) == {f \in OfType(fs, "LastPos") : f.args[2] = ConstS("C")}

\* C40: after every KnowledgeBaseC.tell the store holds exactly one LastPos
\* fact for ghost 'C', and its coordinates equal the my_pos passed to that
\* tell.
C40_LastPosFact ==
    cCall.op = "tell" =>
        /\ Cardinality(LastPosFacts(facts)) = 1
        /\ \A f \in LastPosFacts(facts) : <<f.args[3].i, f.args[4].i>> = my_pos

=============================================================================
